---------------------------- MODULE Spec2Model ----------------------------
(***************************************************************************)
(* Shard-aware connection pool of the ScyllaDB C/C++ driver.               *)
(*                                                                         *)
(*   ShardingInfo     src/src/sharding_info.cpp   (shard_id, parsing)      *)
(*   ConnectionPool   src/unnamed/part_002        (connection_pool.cpp)    *)
(*                                                                         *)
(* 64-bit integers are kept as four 16-bit limbs, least significant first, *)
(* so that every intermediate value of the model fits TLC's integers while *)
(* the arithmetic stays the two's-complement arithmetic of the code.       *)
(***************************************************************************)
EXTENDS Integers, Sequences, FiniteSets, TLC

VARIABLES
    \* ---- one call of ShardingInfo::shard_id --------------------------
    token,                  \* int64_t token (limbs)
    shards_count_,          \* ShardingInfo::shards_count_
    sharding_ignore_MSB_,   \* ShardingInfo::sharding_ignore_MSB_
    shard_ret,              \* [done, value]: the value returned by shard_id
    \* ---- one call of ShardingInfo::parse_sharding_info ---------------
    params,                 \* StringMultimap: key -> [present, values]
    parse_ret,              \* [done, result]: result is a CassOptional
    \* ---- one ConnectionPool ------------------------------------------
    pool,                   \* the ConnectionPool object and what it owns
    lb,                     \* [done, token, result]: one find_least_busy call
    listener,               \* the ConnectionPoolListener and what it has seen
    args,                   \* [done, ...]: one call of the constructor
    \* ---- one ShardPortCalculator -------------------------------------
    calculator              \* the ShardPortCalculator and its last call
mathVars == <<token, shards_count_, sharding_ignore_MSB_, shard_ret>>
parseVars == <<params, parse_ret>>
poolVars == <<pool, lb, listener, args>>
portVars == <<calculator>>

vars == <<mathVars, parseVars, poolVars, portVars>>

\* A CassOptional<T> is the set of its values: {} is CassNullopt, {v} holds v
CassNullopt == {}
Some(v) == {v}
ValueOf(opt) == CHOOSE v \in opt : TRUE

\* The variables of a group at rest, in the specifications that do not use it
MathIdle ==
    /\ token = <<0, 0, 0, 0>>
    /\ shards_count_ = 1
    /\ sharding_ignore_MSB_ = 0
    /\ shard_ret = [done |-> FALSE, value |-> 0]
ParseIdle ==
    /\ params = <<>>
    /\ parse_ret = [done |-> FALSE, result |-> CassNullopt]
\* nop_connection_pool_listener__: the listener of a pool built without one
NopListener ==
    [recording |-> FALSE, ups |-> 0, downs |-> 0, critical_errors |-> 0,
     closes |-> 0, last_up_down |-> "none", repeated |-> FALSE, last |-> <<>>,
     requires_flush |-> 0, registered |-> FALSE, heeds |-> {}]
\* no constructor call is followed
NoArgs == [done |-> TRUE]
\* no ShardPortCalculator is followed
NoCalculator == [done |-> FALSE]
PortIdle == calculator = NoCalculator
PoolIdle ==
    /\ pool = <<>>
    /\ args = NoArgs
    /\ lb = [done |-> FALSE, token |-> <<0, 0, 0, 0>>, result |-> CassNullopt]
    /\ listener = NopListener

-----------------------------------------------------------------------------
(* Bounds of the sharding-math check *)

\* shard counts 1..MaxShardCount are enumerated
MaxShardCount == 256
\* ignore_msb values 0..MaxIgnoreMsb are enumerated
MaxIgnoreMsb == 12

\* Tokens (two's complement, limbs least significant first)
INT64_MIN == <<0, 0, 0, 32768>>
INT64_MAX == <<65535, 65535, 65535, 32767>>
MathTokens ==
    { INT64_MIN, INT64_MAX,
      <<65535, 65535, 65535, 65535>>,      \* -1
      <<0, 0, 0, 0>>,                      \* 0
      <<1, 0, 0, 0>>,                      \* 1
      <<722, 18838, 0, 0>>,                \* 1234567890
      <<1, 0, 0, 32768>>,                  \* INT64_MIN + 1
      <<65535, 65535, 0, 0>>,              \* 2^32 - 1
      <<0, 0, 65535, 65535>>,              \* -2^32
      <<0, 0, 1, 0>>,                      \* 2^32
      <<65535, 65535, 21845, 54613>>,      \* biased: 0x55555555FFFFFFFF
      <<43690, 21845, 43690, 21845>>,
      <<52719, 1315, 30875, 64226>>,
      <<4660, 22136, 39612, 57072>>,
      <<65535, 32767, 65535, 65407>>,
      <<0, 32768, 0, 49152>> }

-----------------------------------------------------------------------------
(* 64-bit arithmetic on limbs *)

\* x * n mod 2^64 for a limb vector x and 0 <= n < 2^15 (an unsigned 64-bit
\* multiplication: int64_t * size_t is computed in size_t)
Mul64(x, n) ==
    LET p1 == x[1] * n
        p2 == x[2] * n + (p1 \div 65536)
        p3 == x[3] * n + (p2 \div 65536)
        p4 == x[4] * n + (p3 \div 65536)
    IN  <<p1 % 65536, p2 % 65536, p3 % 65536, p4 % 65536>>

\* x + y mod 2^64
Add64(x, y) ==
    LET s1 == x[1] + y[1]
        s2 == x[2] + y[2] + (s1 \div 65536)
        s3 == x[3] + y[3] + (s2 \div 65536)
        s4 == x[4] + y[4] + (s3 \div 65536)
    IN  <<s1 % 65536, s2 % 65536, s3 % 65536, s4 % 65536>>

\* x << m mod 2^64, 0 <= m < 64
Shl64(x, m) ==
    LET q == m \div 16
        r == m % 16
        s == [i \in 1..4 |-> IF i - q >= 1 THEN x[i - q] ELSE 0]
    IN  [i \in 1..4 |->
            ((s[i] * (2 ^ r)) % 65536)
            + (IF i = 1 THEN 0 ELSE s[i - 1] \div (2 ^ (16 - r)))]

\* the sign limb of an int64_t
SignExt(x) == IF x[4] >= 32768 THEN 65535 ELSE 0

\* x >> 32 of a signed 64-bit value (arithmetic shift)
Sar32(x) == <<x[3], x[4], SignExt(x), SignExt(x)>>

\* x & 0xffffffffL
And32(x) == <<x[1], x[2], 0, 0>>

\* (int32_t) x : the low 32 bits as a signed number
ToInt32(x) ==
    IF x[2] >= 32768 THEN (x[2] - 65536) * 65536 + x[1]
    ELSE x[2] * 65536 + x[1]

-----------------------------------------------------------------------------
(* ShardingInfo::shard_id *)

\* tokHi without the mask: the sign of the biased token leaks into the sum
shard_id_unmasked(tok, n, m) ==
    LET t1    == Add64(tok, INT64_MIN)
        t2    == Shl64(t1, m)
        tokLo == And32(t2)
        tokHi == Sar32(t2)
        mul1  == Mul64(tokLo, n)
        mul2  == Mul64(tokHi, n)
        sum   == Add64(Sar32(mul1), mul2)
    IN  ToInt32(Sar32(sum))

\* the carry of the low product dropped from the sum
shard_id_nocarry(tok, n, m) ==
    LET t1    == Add64(tok, INT64_MIN)
        t2    == Shl64(t1, m)
        tokHi == And32(Sar32(t2))
        mul2  == Mul64(tokHi, n)
    IN  ToInt32(Sar32(mul2))

shard_id(tok, n, m) ==
    LET t1    == Add64(tok, INT64_MIN)          \* token += INT64_MIN
        t2    == Shl64(t1, m)                   \* token <<= ignore_MSB
        tokLo == And32(t2)
        tokHi == And32(Sar32(t2))
        mul1  == Mul64(tokLo, n)
        mul2  == Mul64(tokHi, n)
        sum   == Add64(Sar32(mul1), mul2)
    IN  ToInt32(Sar32(sum))

InitMath ==
    /\ token \in MathTokens
    /\ shards_count_ \in 1..MaxShardCount
    /\ sharding_ignore_MSB_ \in 0..MaxIgnoreMsb
    /\ shard_ret = [done |-> FALSE, value |-> 0]
    /\ ParseIdle
    /\ PoolIdle
    /\ PortIdle

CallShardId ==
    /\ ~shard_ret.done
    /\ shard_ret' = [done |-> TRUE,
                     value |-> shard_id(token, shards_count_, sharding_ignore_MSB_)]
    /\ UNCHANGED <<token, shards_count_, sharding_ignore_MSB_>>
    /\ UNCHANGED <<parseVars, poolVars, portVars>>

NextMath == CallShardId

SpecMath == InitMath /\ [][NextMath]_vars

-----------------------------------------------------------------------------
(* Reference: floor(U * n / 2^64) by a full-width product *)

\* the limb above bit 63 of x * n (x < 2^64, n < 2^15): floor(x * n / 2^64)
MulHigh(x, n) ==
    LET p1 == x[1] * n
        p2 == x[2] * n + (p1 \div 65536)
        p3 == x[3] * n + (p2 \div 65536)
        p4 == x[4] * n + (p3 \div 65536)
    IN  p4 \div 65536

\* U = (((t + 2^63) mod 2^64) * 2^m) mod 2^64
BiasedShifted(tok, m) == Mul64(Add64(tok, <<0, 0, 0, 32768>>), 2 ^ m)

\* C4: for every token, n in 1..MaxShardCount and m in 0..MaxIgnoreMsb the
\* value returned by shard_id lies in [0, n).
C4_ShardIdInRange ==
    shard_ret.done => (0 <= shard_ret.value /\ shard_ret.value < shards_count_)

\* C4 witness: a negative token, the largest shift, and the last shard hit
C4_Witness ==
    /\ shard_ret.done
    /\ token[4] >= 32768
    /\ sharding_ignore_MSB_ = 12
    /\ shards_count_ = 256
    /\ shard_ret.value = 255

-----------------------------------------------------------------------------
(* ShardingInfo::parse_sharding_info *)

\* A numeric option value is a string kept as its sequence of characters, so
\* that atoi reads it character by character; partitioner and algorithm values
\* are only compared and are kept as strings.

SCYLLA_SHARD_PARAM_KEY == "SCYLLA_SHARD"
SCYLLA_NR_SHARDS_PARAM_KEY == "SCYLLA_NR_SHARDS"
SCYLLA_PARTITIONER == "SCYLLA_PARTITIONER"
SCYLLA_SHARDING_ALGORITHM == "SCYLLA_SHARDING_ALGORITHM"
SCYLLA_SHARDING_IGNORE_MSB == "SCYLLA_SHARDING_IGNORE_MSB"
SCYLLA_SHARD_AWARE_PORT == "SCYLLA_SHARD_AWARE_PORT"
SCYLLA_SHARD_AWARE_PORT_SSL == "SCYLLA_SHARD_AWARE_PORT_SSL"

Murmur3Partitioner == "org.apache.cassandra.dht.Murmur3Partitioner"
BiasedTokenRoundRobin == "biased-token-round-robin"

\* the largest number of values one key carries in the enumerated inputs
MaxValues == 2

IsSpace(c) == c \in {" ", "\t", "\n"}
IsDigit(c) == c \in {"0", "1", "2", "3", "4", "5", "6", "7", "8", "9"}
DigitVal(c) ==
    CASE c = "0" -> 0 [] c = "1" -> 1 [] c = "2" -> 2 [] c = "3" -> 3
      [] c = "4" -> 4 [] c = "5" -> 5 [] c = "6" -> 6 [] c = "7" -> 7
      [] c = "8" -> 8 [] c = "9" -> 9

RECURSIVE SkipSpaces(_, _)
SkipSpaces(s, i) ==
    IF i <= Len(s) /\ IsSpace(s[i]) THEN SkipSpaces(s, i + 1) ELSE i

RECURSIVE ReadDigits(_, _, _)
ReadDigits(s, i, acc) ==
    IF i <= Len(s) /\ IsDigit(s[i])
    THEN ReadDigits(s, i + 1, acc * 10 + DigitVal(s[i]))
    ELSE acc

\* std::atoi: leading white space, an optional sign, then the longest prefix
\* of decimal digits; 0 when there is no digit
atoi(s) ==
    LET i   == SkipSpaces(s, 1)
        sgn == i <= Len(s) /\ s[i] \in {"+", "-"}
        neg == sgn /\ s[i] = "-"
        v   == ReadDigits(s, IF sgn THEN i + 1 ELSE i, 0)
    IN  IF neg THEN 0 - v ELSE v

\* (size_t) of an int: 64-bit two's complement, as limbs
ToSizeT(v) ==
    LET ext == IF v < 0 THEN 65535 ELSE 0
    IN  <<v % 65536, (v \div 65536) % 65536, ext, ext>>

\* params.count(key) and params.at(key)
Count(ps, key) == IF ps[key].present THEN 1 ELSE 0
At(ps, key) == ps[key].values

\* a key with one value or more is accepted, the first value taken
parse_string_any(ps, key) ==
    IF Count(ps, key) = 0 \/ Len(At(ps, key)) < 1
    THEN CassNullopt
    ELSE Some(At(ps, key)[1])

parse_string(ps, key) ==
    IF Count(ps, key) = 0 \/ Len(At(ps, key)) # 1
    THEN CassNullopt
    ELSE Some(At(ps, key)[1])

parse_int(ps, key) ==
    LET val == parse_string(ps, key)
    IN  IF val = CassNullopt THEN CassNullopt ELSE Some(atoi(ValueOf(val)))

parse_sharding_info(ps) ==
    LET shard               == parse_int(ps, SCYLLA_SHARD_PARAM_KEY)
        shards_count        == parse_int(ps, SCYLLA_NR_SHARDS_PARAM_KEY)
        partitioner         == parse_string(ps, SCYLLA_PARTITIONER)
        sharding_algorithm  == parse_string(ps, SCYLLA_SHARDING_ALGORITHM)
        sharding_ignore_MSB == parse_int(ps, SCYLLA_SHARDING_IGNORE_MSB)
        shard_aware_port    == parse_int(ps, SCYLLA_SHARD_AWARE_PORT)
        shard_aware_port_ssl == parse_int(ps, SCYLLA_SHARD_AWARE_PORT_SSL)
    IN  IF \/ shard = CassNullopt
           \/ shards_count = CassNullopt
           \/ partitioner = CassNullopt
           \/ sharding_algorithm = CassNullopt
           \/ sharding_ignore_MSB = CassNullopt
           \/ ValueOf(partitioner) # Murmur3Partitioner
           \/ ValueOf(sharding_algorithm) # BiasedTokenRoundRobin
        THEN CassNullopt
        ELSE Some([shard_id |-> ValueOf(shard),
                   sharding_info |->
                     [shards_count |-> ToSizeT(ValueOf(shards_count)),
                      partitioner |-> ValueOf(partitioner),
                      sharding_algorithm |-> ValueOf(sharding_algorithm),
                      sharding_ignore_MSB |-> ValueOf(sharding_ignore_MSB),
                      shard_aware_port |-> shard_aware_port,
                      shard_aware_port_ssl |-> shard_aware_port_ssl]])

\* The supported-options of the enumerated inputs: per key absent, an empty
\* list, one value of vs, or the value d repeated 2..MaxValues times
Absent == [present |-> FALSE, values |-> <<>>]
Entries(vs, d) ==
    {Absent}
    \cup {[present |-> TRUE, values |-> <<v>>] : v \in vs}
    \cup {[present |-> TRUE, values |-> [i \in 1..k |-> d]] :
            k \in {0} \cup (2..MaxValues)}

NrShardsValues ==
    { <<"4">>, <<"0">>, <<"-", "1">>, <<"x">>, <<" ", "+", "2">>,
      <<"1", "2", "a">>, <<>> }

InitParse ==
    /\ \E sh \in Entries({<<"1">>}, <<"1">>),
          nr \in Entries(NrShardsValues, <<"4">>),
          pa \in Entries({Murmur3Partitioner, "RandomPartitioner"}, Murmur3Partitioner),
          al \in Entries({BiasedTokenRoundRobin, "other"}, BiasedTokenRoundRobin),
          ms \in Entries({<<"1", "2">>}, <<"1", "2">>),
          po \in Entries({<<"1", "9", "0", "4", "2">>}, <<"1", "9", "0", "4", "2">>),
          ps \in Entries({<<"1", "9", "1", "4", "2">>}, <<"1", "9", "1", "4", "2">>) :
        params = [k \in {SCYLLA_SHARD_PARAM_KEY, SCYLLA_NR_SHARDS_PARAM_KEY,
                         SCYLLA_PARTITIONER, SCYLLA_SHARDING_ALGORITHM,
                         SCYLLA_SHARDING_IGNORE_MSB, SCYLLA_SHARD_AWARE_PORT,
                         SCYLLA_SHARD_AWARE_PORT_SSL} |->
                    CASE k = SCYLLA_SHARD_PARAM_KEY -> sh
                      [] k = SCYLLA_NR_SHARDS_PARAM_KEY -> nr
                      [] k = SCYLLA_PARTITIONER -> pa
                      [] k = SCYLLA_SHARDING_ALGORITHM -> al
                      [] k = SCYLLA_SHARDING_IGNORE_MSB -> ms
                      [] k = SCYLLA_SHARD_AWARE_PORT -> po
                      [] k = SCYLLA_SHARD_AWARE_PORT_SSL -> ps]
    /\ parse_ret = [done |-> FALSE, result |-> CassNullopt]
    /\ MathIdle
    /\ PoolIdle
    /\ PortIdle

CallParse ==
    /\ ~parse_ret.done
    /\ parse_ret' = [done |-> TRUE, result |-> parse_sharding_info(params)]
    /\ UNCHANGED params
    /\ UNCHANGED <<mathVars, poolVars, portVars>>

NextParse == CallParse

SpecParse == InitParse /\ [][NextParse]_vars

\* exactly one value under the key
Singleton(key) == params[key].present /\ Len(params[key].values) = 1

\* C6: a descriptor is returned iff the five required options are singletons
\* and partitioner and algorithm are the supported ones; the two port options
\* play no part.
C6_DescriptorIff ==
    parse_ret.done =>
        ( parse_ret.result # CassNullopt
          <=> /\ Singleton(SCYLLA_SHARD_PARAM_KEY)
              /\ Singleton(SCYLLA_NR_SHARDS_PARAM_KEY)
              /\ Singleton(SCYLLA_PARTITIONER)
              /\ Singleton(SCYLLA_SHARDING_ALGORITHM)
              /\ Singleton(SCYLLA_SHARDING_IGNORE_MSB)
              /\ params[SCYLLA_PARTITIONER].values[1] = Murmur3Partitioner
              /\ params[SCYLLA_SHARDING_ALGORITHM].values[1] = BiasedTokenRoundRobin )

\* C6 witness: a descriptor returned although one port option is absent and
\* the other carries two values
C6_Witness ==
    /\ parse_ret.done
    /\ parse_ret.result # CassNullopt
    /\ ~params[SCYLLA_SHARD_AWARE_PORT].present
    /\ Len(params[SCYLLA_SHARD_AWARE_PORT_SSL].values) = 2

\* a non-empty string of decimal digits whose value is at least 1
PositiveDecimal(s) ==
    /\ Len(s) >= 1
    /\ \A i \in 1..Len(s) : IsDigit(s[i])
    /\ \E i \in 1..Len(s) : s[i] # "0"

\* C7 (as claimed): every returned descriptor has shards_count >= 1, and a
\* malformed, zero or negative SCYLLA_NR_SHARDS value yields no descriptor.
C7_ShardsCountPositive ==
    (parse_ret.done /\ parse_ret.result # CassNullopt) =>
        /\ ValueOf(parse_ret.result).sharding_info.shards_count # <<0, 0, 0, 0>>
        /\ PositiveDecimal(params[SCYLLA_NR_SHARDS_PARAM_KEY].values[1])

-----------------------------------------------------------------------------
(* ConnectionPool: state *)

(* pool is a record of the ConnectionPool's members and of the objects it    *)
(* refers to:                                                                *)
(*   host_sharding_info      host_->sharding_info(), a CassOptional of       *)
(*                           [shards_count, sharding_ignore_MSB,             *)
(*                            shard_aware_port, shard_aware_port_ssl]        *)
(*   num_connections_per_shard_                                              *)
(*   connections_by_shard_   slot index (from 0) -> sequence of pooled       *)
(*                           connection ids                                  *)
(*   keyspace_                                                               *)
(*   connection              id -> [shard_id, closing, inflight, buffered,   *)
(*                           keyspace]                                       *)
(*                           for every PooledConnection that has not yet     *)
(*                           delivered its close notification; buffered: its *)
(*                           write buffer is not empty                       *)
(*   to_flush_               set of pooled connection ids                    *)
(*   pending_connections_    sequence of connector ids                       *)
(*   connector               id -> [desired_shard_num, canceled, keyspace]   *)
(*   reconnection_schedules_ connector id -> [id, calls]: the schedule and   *)
(*                           the number of next_delay_ms() calls made on it  *)
(*   close_state_, notify_state_                                             *)
(*   metrics                 metrics_: CassNullopt for NULL, else the value  *)
(*                           of metrics_->total_connections                  *)
(*   emitted                 the listener calls made by the handler that is  *)
(*                           running, in order                               *)
(*   close_states            the values written to close_state_ by the       *)
(*                           handler that is running, in order               *)
(*   supplied                what the constructor did with each supplied     *)
(*                           connection, in order                            *)
(*   oob_access              an index >= connections_by_shard_.size() was    *)
(*                           used on connections_by_shard_                   *)
(*   crashed                 the process ended on such an access or on a     *)
(*                           division by zero                                *)
(*   no_schedule             on_reconnect ran for a connector that had no    *)
(*                           entry in reconnection_schedules_                *)

CLOSE_STATE_OPEN == "OPEN"
CLOSE_STATE_CLOSING == "CLOSING"
CLOSE_STATE_WAITING_FOR_CONNECTIONS == "WAITING_FOR_CONNECTIONS"
CLOSE_STATE_CLOSED == "CLOSED"

NOTIFY_STATE_NEW == "NEW"
NOTIFY_STATE_UP == "UP"
NOTIFY_STATE_DOWN == "DOWN"
NOTIFY_STATE_CRITICAL == "CRITICAL"

\* the calls the pool makes on its ConnectionPoolListener
on_pool_up == "on_pool_up"
on_pool_down == "on_pool_down"
on_pool_critical_error == "on_pool_critical_error"
on_close == "on_close"
on_requires_flush == "on_requires_flush"

(* Bounds of the pool model *)

\* a sharded host has 1..MaxShards shards
MaxShards == 2
\* settings_.num_connections_per_host ranges over 0..MaxPerHost
MaxPerHost == 2
\* at most MaxSupplied connections are handed to the constructor
MaxSupplied == 2
\* next_delay_ms() is called at most MaxCalls times on one schedule
MaxCalls == 2
\* at most MaxLoad pending connectors and PooledConnection objects exist at
\* once (the pools enumerated aim at two connections or fewer)
MaxLoad == 3

\* the smallest positive number not in used: the identity of a new object
FreshId(used) ==
    CHOOSE i \in 1..(Cardinality(used) + 1) :
        i \notin used /\ \A j \in 1..(i - 1) : j \in used

\* v.erase(std::remove(v.begin(), v.end(), x), v.end())
EraseRemove(v, x) == SelectSeq(v, LAMBDA e : e # x)

\* a map without the key k
MapErase(f, k) == [x \in DOMAIN f \ {k} |-> f[x]]

NumSlots(st) == Cardinality(DOMAIN st.connections_by_shard_)

\* the elements of a vector
Elems(v) == {v[i] : i \in 1..Len(v)}

\* the pooled connections held in some slot
InSlots(st) ==
    UNION {Elems(st.connections_by_shard_[s]) : s \in DOMAIN st.connections_by_shard_}

\* si && (si->shard_aware_port() || si->shard_aware_port_ssl())
HasShardAwarePort(st) ==
    /\ st.host_sharding_info # CassNullopt
    /\ \/ ValueOf(st.host_sharding_info).shard_aware_port # CassNullopt
       \/ ValueOf(st.host_sharding_info).shard_aware_port_ssl # CassNullopt

has_connections(st) ==
    \E s \in DOMAIN st.connections_by_shard_ : st.connections_by_shard_[s] # <<>>

\* new PooledConnection(this, connection): a new object wrapping a connection
\* [shard_id, keyspace]
NewPooledConnection(st, p, connection) ==
    [st EXCEPT !.connection =
        (p :> [shard_id |-> connection.shard_id, closing |-> FALSE,
               inflight |-> 0, buffered |-> FALSE,
               keyspace |-> connection.keyspace]) @@ @]

\* connector->release_connection(): the connection that connector c has made,
\* on the shard the server chose and with the keyspace the connector was
\* given
release_connection(st, c, shard) ==
    [shard_id |-> shard, keyspace |-> st.connector[c].keyspace]

\* the slot of an out-of-range push is never reached: both callers check
add_connection(st, p) ==
    [st EXCEPT
        !.metrics = IF @ # CassNullopt THEN Some(ValueOf(@) + 1) ELSE @,
        !.connections_by_shard_[st.connection[p].shard_id] = Append(@, p)]

\* the pool is never marked DOWN
notify_up_only(st) ==
    IF st.notify_state_ \in {NOTIFY_STATE_NEW, NOTIFY_STATE_DOWN}
       /\ has_connections(st)
    THEN [st EXCEPT !.notify_state_ = NOTIFY_STATE_UP,
                    !.emitted = Append(@, on_pool_up)]
    ELSE st

notify_up_or_down(st) ==
    IF st.notify_state_ \in {NOTIFY_STATE_NEW, NOTIFY_STATE_UP} /\ ~has_connections(st)
    THEN [st EXCEPT !.notify_state_ = NOTIFY_STATE_DOWN,
                    !.emitted = Append(@, on_pool_down)]
    ELSE IF st.notify_state_ \in {NOTIFY_STATE_NEW, NOTIFY_STATE_DOWN}
            /\ has_connections(st)
    THEN [st EXCEPT !.notify_state_ = NOTIFY_STATE_UP,
                    !.emitted = Append(@, on_pool_up)]
    ELSE st

\* the critical error is also reported as on_pool_down
notify_critical_error_and_down(st) ==
    IF st.notify_state_ # NOTIFY_STATE_CRITICAL
    THEN [st EXCEPT !.notify_state_ = NOTIFY_STATE_CRITICAL,
                    !.emitted = @ \o <<on_pool_critical_error, on_pool_down>>]
    ELSE st

notify_critical_error(st) ==
    IF st.notify_state_ # NOTIFY_STATE_CRITICAL
    THEN [st EXCEPT !.notify_state_ = NOTIFY_STATE_CRITICAL,
                    !.emitted = Append(@, on_pool_critical_error)]
    ELSE st

\* the desired shard is set whatever ports the host advertises
schedule_reconnect_any_host(st, schedule, desired_shard_num, alive) ==
    LET c     == FreshId(DOMAIN st.connector \cup alive)
        sched == IF schedule = CassNullopt
                 THEN [id |-> FreshId({st.reconnection_schedules_[k].id :
                                        k \in DOMAIN st.reconnection_schedules_}),
                       calls |-> 0]
                 ELSE ValueOf(schedule)
    IN  [st EXCEPT
            !.reconnection_schedules_ =
                (c :> [sched EXCEPT !.calls = @ + 1]) @@ @,
            !.connector =
                (c :> [desired_shard_num |-> desired_shard_num,
                       canceled |-> FALSE,
                       keyspace |-> st.keyspace_]) @@ @,
            !.pending_connections_ = Append(@, c)]

\* a null schedule is replaced by the schedule of a pending attempt if there
\* is one
schedule_reconnect_shared_schedule(st, schedule, desired_shard_num, alive) ==
    LET c     == FreshId(DOMAIN st.connector \cup alive)
        sched == IF schedule # CassNullopt THEN ValueOf(schedule)
                 ELSE IF st.pending_connections_ # <<>>
                 THEN st.reconnection_schedules_[Head(st.pending_connections_)]
                 ELSE [id |-> 1, calls |-> 0]
        want  == IF desired_shard_num # CassNullopt /\ HasShardAwarePort(st)
                 THEN desired_shard_num
                 ELSE CassNullopt
    IN  [st EXCEPT
            !.reconnection_schedules_ =
                (c :> [sched EXCEPT !.calls = @ + 1]) @@ @,
            !.connector =
                (c :> [desired_shard_num |-> want, canceled |-> FALSE,
                       keyspace |-> st.keyspace_]) @@ @,
            !.pending_connections_ = Append(@, c)]

\* schedule: CassNullopt for nullptr, else the schedule to reuse;
\* alive: connector objects that exist besides the pending ones
schedule_reconnect(st, schedule, desired_shard_num, alive) ==
    LET c     == FreshId(DOMAIN st.connector \cup alive)
        sched == IF schedule = CassNullopt
                 THEN [id |-> FreshId({st.reconnection_schedules_[k].id :
                                        k \in DOMAIN st.reconnection_schedules_}),
                       calls |-> 0]
                 ELSE ValueOf(schedule)
        want  == IF desired_shard_num # CassNullopt /\ HasShardAwarePort(st)
                 THEN desired_shard_num
                 ELSE CassNullopt
    IN  [st EXCEPT
            !.reconnection_schedules_ =
                (c :> [sched EXCEPT !.calls = @ + 1]) @@ @,
            !.connector =
                (c :> [desired_shard_num |-> want, canceled |-> FALSE,
                       keyspace |-> st.keyspace_]) @@ @,
            !.pending_connections_ = Append(@, c)]

\* pending reconnect attempts are not waited for
maybe_closed_ignores_pending(st) ==
    IF /\ st.close_state_ = CLOSE_STATE_WAITING_FOR_CONNECTIONS
       /\ ~has_connections(st)
    THEN [st EXCEPT
             !.close_state_ = CLOSE_STATE_CLOSED,
             !.close_states = Append(@, CLOSE_STATE_CLOSED),
             !.emitted = IF st.notify_state_ = NOTIFY_STATE_UP
                         THEN @ \o <<on_pool_down, on_close>>
                         ELSE Append(@, on_close)]
    ELSE st

\* on_pool_down is called whatever notify_state_ is
maybe_closed_always_down(st) ==
    IF /\ st.close_state_ = CLOSE_STATE_WAITING_FOR_CONNECTIONS
       /\ ~has_connections(st)
       /\ st.pending_connections_ = <<>>
    THEN [st EXCEPT !.close_state_ = CLOSE_STATE_CLOSED,
                    !.close_states = Append(@, CLOSE_STATE_CLOSED),
                    !.emitted = @ \o <<on_pool_down, on_close>>]
    ELSE st

\* a pool that is CLOSING is taken for one that waits for its connections
maybe_closed_while_closing(st) ==
    IF /\ st.close_state_ \in {CLOSE_STATE_CLOSING,
                               CLOSE_STATE_WAITING_FOR_CONNECTIONS}
       /\ ~has_connections(st)
       /\ st.pending_connections_ = <<>>
    THEN [st EXCEPT
             !.close_state_ = CLOSE_STATE_CLOSED,
             !.close_states = Append(@, CLOSE_STATE_CLOSED),
             !.emitted = IF st.notify_state_ = NOTIFY_STATE_UP
                         THEN @ \o <<on_pool_down, on_close>>
                         ELSE Append(@, on_close)]
    ELSE st

maybe_closed(st) ==
    IF /\ st.close_state_ = CLOSE_STATE_WAITING_FOR_CONNECTIONS
       /\ ~has_connections(st)
       /\ st.pending_connections_ = <<>>
    THEN [st EXCEPT
             !.close_state_ = CLOSE_STATE_CLOSED,
             !.close_states = Append(@, CLOSE_STATE_CLOSED),
             !.emitted = IF st.notify_state_ = NOTIFY_STATE_UP
                         THEN @ \o <<on_pool_down, on_close>>
                         ELSE Append(@, on_close)]
    ELSE st

\* PooledConnection::close(): the connection turns closing; its close
\* notification reaches the pool later (ConnectionClosed)
PooledConnection_close(st, p) ==
    [st EXCEPT !.connection[p].closing = TRUE]

RECURSIVE CloseAll(_, _)
CloseAll(st, ps) ==
    IF ps = {} THEN st
    ELSE LET p == CHOOSE q \in ps : TRUE
         IN  CloseAll(PooledConnection_close(st, p), ps \ {p})

RECURSIVE on_reconnect(_, _, _, _, _)

\* DelayedConnector::cancel(): a connector whose delay timer still runs fires
\* its callback at once (now), any other one is marked and fires it later
DelayedConnector_cancel(st, c, now) ==
    IF now
    THEN on_reconnect([st EXCEPT !.connector[c].canceled = TRUE], c, "canceled", 0, {})
    ELSE [st EXCEPT !.connector[c].canceled = TRUE]

RECURSIVE CancelAll(_, _, _)
CancelAll(st, cs, sync) ==
    IF cs = <<>> THEN st
    ELSE CancelAll(DelayedConnector_cancel(st, Head(cs), Head(cs) \in sync),
                   Tail(cs), sync)

\* close_state_ is not looked at
internal_close_unguarded(st, sync) ==
    LET s1 == [st EXCEPT !.close_state_ = CLOSE_STATE_CLOSING,
                           !.close_states = Append(@, CLOSE_STATE_CLOSING)]
        s2 == CloseAll(s1, InSlots(s1))
        s3 == CancelAll(s2, s2.pending_connections_, sync)
        s4 == [s3 EXCEPT
                     !.close_state_ = CLOSE_STATE_WAITING_FOR_CONNECTIONS,
                     !.close_states =
                         Append(@, CLOSE_STATE_WAITING_FOR_CONNECTIONS)]
    IN  maybe_closed(s4)

\* the schedules are dropped before the pending connectors are cancelled
internal_close_drops_schedules(st, sync) ==
    IF st.close_state_ = CLOSE_STATE_OPEN
    THEN LET s1 == [st EXCEPT !.close_state_ = CLOSE_STATE_CLOSING,
                           !.close_states = Append(@, CLOSE_STATE_CLOSING),
                           !.reconnection_schedules_ = <<>>]
             s2 == CloseAll(s1, InSlots(s1))
             s3 == CancelAll(s2, s2.pending_connections_, sync)
             s4 == [s3 EXCEPT
                     !.close_state_ = CLOSE_STATE_WAITING_FOR_CONNECTIONS,
                     !.close_states =
                         Append(@, CLOSE_STATE_WAITING_FOR_CONNECTIONS)]
         IN  maybe_closed(s4)
    ELSE st

\* sync: the pending connectors whose cancel() fires the callback at once
internal_close(st, sync) ==
    IF st.close_state_ = CLOSE_STATE_OPEN
    THEN LET s1 == [st EXCEPT !.close_state_ = CLOSE_STATE_CLOSING,
                           !.close_states = Append(@, CLOSE_STATE_CLOSING)]
             s2 == CloseAll(s1, InSlots(s1))
             s3 == CancelAll(s2, s2.pending_connections_, sync)
             s4 == [s3 EXCEPT
                     !.close_state_ = CLOSE_STATE_WAITING_FOR_CONNECTIONS,
                     !.close_states =
                         Append(@, CLOSE_STATE_WAITING_FOR_CONNECTIONS)]
         IN  maybe_closed(s4)
    ELSE st

\* only the range of the shard id is checked
slot_has_room_unchecked(st, shard) == NumSlots(st) > shard

\* connections_by_shard_.size() > shard
\*   && connections_by_shard_[shard].size() < num_connections_per_shard_
slot_has_room(st, shard) ==
    /\ NumSlots(st) > shard
    /\ Len(st.connections_by_shard_[shard]) < st.num_connections_per_shard_

\* a connection turned away is replaced by an attempt with a new schedule
on_reconnect_fresh_schedule(st, c, outcome, shard, sync) ==
    LET schedule == st.reconnection_schedules_[c]
        desired  == st.connector[c].desired_shard_num
        s1 == [st EXCEPT
                 !.pending_connections_ = EraseRemove(@, c),
                 !.reconnection_schedules_ = MapErase(@, c),
                 !.connector = MapErase(@, c)]
        p  == FreshId(DOMAIN s1.connection)
        s2 == NewPooledConnection(s1, p, release_connection(st, c, shard))
    IN  IF s1.close_state_ # CLOSE_STATE_OPEN THEN maybe_closed(s1)
        ELSE IF outcome = "ok"
        THEN IF slot_has_room(s2, shard)
             THEN notify_up_or_down(add_connection(s2, p))
             ELSE schedule_reconnect(PooledConnection_close(s2, p),
                                     CassNullopt, desired, {c})
        ELSE IF outcome # "canceled"
        THEN IF outcome = "critical"
             THEN internal_close(notify_critical_error(s1), sync)
             ELSE schedule_reconnect(s1, Some(schedule), desired, {c})
        ELSE s1

\* after a transient error the desired shard is dropped
on_reconnect_forgets_shard(st, c, outcome, shard, sync) ==
    LET schedule == st.reconnection_schedules_[c]
        desired  == st.connector[c].desired_shard_num
        s1 == [st EXCEPT
                 !.pending_connections_ = EraseRemove(@, c),
                 !.reconnection_schedules_ = MapErase(@, c),
                 !.connector = MapErase(@, c)]
        p  == FreshId(DOMAIN s1.connection)
        s2 == NewPooledConnection(s1, p, release_connection(st, c, shard))
    IN  IF s1.close_state_ # CLOSE_STATE_OPEN THEN maybe_closed(s1)
        ELSE IF outcome = "ok"
        THEN IF slot_has_room(s2, shard)
             THEN notify_up_or_down(add_connection(s2, p))
             ELSE schedule_reconnect(PooledConnection_close(s2, p),
                                     Some(schedule), desired, {c})
        ELSE IF outcome # "canceled"
        THEN IF outcome = "critical"
             THEN internal_close(notify_critical_error(s1), sync)
             ELSE schedule_reconnect(s1, Some(schedule), CassNullopt, {c})
        ELSE s1

\* a critical error is reported but the pool is not closed
on_reconnect_no_close(st, c, outcome, shard, sync) ==
    LET schedule == st.reconnection_schedules_[c]
        desired  == st.connector[c].desired_shard_num
        s1 == [st EXCEPT
                 !.pending_connections_ = EraseRemove(@, c),
                 !.reconnection_schedules_ = MapErase(@, c),
                 !.connector = MapErase(@, c)]
        p  == FreshId(DOMAIN s1.connection)
        s2 == NewPooledConnection(s1, p, release_connection(st, c, shard))
    IN  IF s1.close_state_ # CLOSE_STATE_OPEN THEN maybe_closed(s1)
        ELSE IF outcome = "ok"
        THEN IF slot_has_room(s2, shard)
             THEN notify_up_or_down(add_connection(s2, p))
             ELSE schedule_reconnect(PooledConnection_close(s2, p),
                                     Some(schedule), desired, {c})
        ELSE IF outcome # "canceled"
        THEN IF outcome = "critical"
             THEN notify_critical_error(s1)
             ELSE schedule_reconnect(s1, Some(schedule), desired, {c})
        ELSE s1

\* a connection put in its slot is not followed by notify_up_or_down()
on_reconnect_no_notify(st, c, outcome, shard, sync) ==
    LET schedule == st.reconnection_schedules_[c]
        desired  == st.connector[c].desired_shard_num
        s1 == [st EXCEPT
                 !.pending_connections_ = EraseRemove(@, c),
                 !.reconnection_schedules_ = MapErase(@, c),
                 !.connector = MapErase(@, c)]
        p  == FreshId(DOMAIN s1.connection)
        s2 == NewPooledConnection(s1, p, release_connection(st, c, shard))
    IN  IF s1.close_state_ # CLOSE_STATE_OPEN THEN maybe_closed(s1)
        ELSE IF outcome = "ok"
        THEN IF slot_has_room(s2, shard)
             THEN add_connection(s2, p)
             ELSE schedule_reconnect(PooledConnection_close(s2, p),
                                     Some(schedule), desired, {c})
        ELSE IF outcome # "canceled"
        THEN IF outcome = "critical"
             THEN internal_close(notify_critical_error(s1), sync)
             ELSE schedule_reconnect(s1, Some(schedule), desired, {c})
        ELSE s1

\* outcome: "ok", "canceled", "critical" or "transient"; shard: the shard id
\* the new connection reports (read when ok); no_schedule records the
\* assertion that the connector has a schedule
on_reconnect(st, c, outcome, shard, sync) ==
    LET schedule == st.reconnection_schedules_[c]
        desired  == st.connector[c].desired_shard_num
        s1 == [st EXCEPT
                 !.pending_connections_ = EraseRemove(@, c),
                 !.no_schedule =
                     @ \/ c \notin DOMAIN st.reconnection_schedules_,
                 !.reconnection_schedules_ = MapErase(@, c),
                 !.connector = MapErase(@, c)]
        p  == FreshId(DOMAIN s1.connection)
        s2 == NewPooledConnection(s1, p, release_connection(st, c, shard))
    IN  IF s1.close_state_ # CLOSE_STATE_OPEN THEN maybe_closed(s1)
        ELSE IF outcome = "ok"
        THEN IF slot_has_room(s2, shard)
             THEN notify_up_or_down(add_connection(s2, p))
             ELSE schedule_reconnect(PooledConnection_close(s2, p),
                                     Some(schedule), desired, {c})
        ELSE IF outcome # "canceled"
        THEN IF outcome = "critical"
             THEN internal_close(notify_critical_error(s1), sync)
             ELSE schedule_reconnect(s1, Some(schedule), desired, {c})
        ELSE s1

set_keyspace(st, keyspace) == [st EXCEPT !.keyspace_ = keyspace]

\* called by a PooledConnection whose write buffer turns from empty to not
\* empty
requires_flush(st, p) ==
    LET s1 == IF st.to_flush_ = {}
              THEN [st EXCEPT !.emitted = Append(@, on_requires_flush)]
              ELSE st
    IN  [s1 EXCEPT !.to_flush_ = @ \cup {p}]

\* PooledConnection::flush() writes the connection's buffer out
flush(st) ==
    [st EXCEPT
        !.connection = [p \in DOMAIN @ |->
                          IF p \in st.to_flush_
                          THEN [@[p] EXCEPT !.buffered = FALSE]
                          ELSE @[p]],
        !.to_flush_ = {}]

\* close_state_ is not looked at: a reconnect is scheduled on any pool
close_connection_always_reconnects(st, p) ==
    LET shard == st.connection[p].shard_id
        s0 == [st EXCEPT
                 !.metrics = IF @ # CassNullopt THEN Some(ValueOf(@) - 1) ELSE @]
        s1 == IF shard \in DOMAIN st.connections_by_shard_
              THEN [s0 EXCEPT !.connections_by_shard_[shard] = EraseRemove(@, p),
                              !.to_flush_ = @ \ {p}]
              ELSE [s0 EXCEPT !.oob_access = TRUE, !.to_flush_ = @ \ {p}]
    IN  schedule_reconnect(notify_up_or_down(s1), CassNullopt, Some(shard), {})

\* the pool's part of PooledConnection::on_close
close_connection(st, p) ==
    LET shard == st.connection[p].shard_id
        s0 == [st EXCEPT
                 !.metrics = IF @ # CassNullopt THEN Some(ValueOf(@) - 1) ELSE @]
        s1 == IF shard \in DOMAIN st.connections_by_shard_
              THEN [s0 EXCEPT !.connections_by_shard_[shard] = EraseRemove(@, p),
                              !.to_flush_ = @ \ {p}]
              ELSE [s0 EXCEPT !.oob_access = TRUE, !.to_flush_ = @ \ {p}]
    IN  IF s1.close_state_ # CLOSE_STATE_OPEN THEN maybe_closed(s1)
        ELSE schedule_reconnect(notify_up_or_down(s1), CassNullopt, Some(shard), {})

-----------------------------------------------------------------------------
(* Object identities are arbitrary, so every state is kept in one numbering:  *)
(* pooled connections by slot and position, then the ones outside the slots  *)
(* by shard id; connectors by what they carry (the pool reads                 *)
(* pending_connections_ as a collection: it removes by identity and cancels  *)
(* every member, so the order of the vector decides nothing); schedules by   *)
(* the first connector that holds them.                                       *)

RECURSIVE FlattenSlots(_, _)
FlattenSlots(st, s) ==
    IF s >= NumSlots(st) THEN <<>>
    ELSE st.connections_by_shard_[s] \o FlattenSlots(st, s + 1)

RECURSIVE SortByShard(_, _)
SortByShard(st, ids) ==
    IF ids = {} THEN <<>>
    ELSE LET m == CHOOSE x \in ids : \A y \in ids :
                    \/ st.connection[x].shard_id < st.connection[y].shard_id
                    \/ /\ st.connection[x].shard_id = st.connection[y].shard_id
                       /\ x <= y
         IN  <<m>> \o SortByShard(st, ids \ {m})

\* a connector's place in the numbering: desired shard, cancelled, calls made
ConnectorKey(st, c) ==
    <<IF st.connector[c].desired_shard_num = CassNullopt THEN 0
      ELSE 1 + ValueOf(st.connector[c].desired_shard_num),
      IF st.connector[c].canceled THEN 1 ELSE 0,
      st.reconnection_schedules_[c].calls,
      c>>

LexLeq(a, b) ==
    \/ a[1] < b[1]
    \/ a[1] = b[1] /\ a[2] < b[2]
    \/ a[1] = b[1] /\ a[2] = b[2] /\ a[3] < b[3]
    \/ a[1] = b[1] /\ a[2] = b[2] /\ a[3] = b[3] /\ a[4] <= b[4]

RECURSIVE SortConnectors(_, _)
SortConnectors(st, cs) ==
    IF cs = {} THEN <<>>
    ELSE LET m == CHOOSE x \in cs : \A y \in cs :
                    LexLeq(ConnectorKey(st, x), ConnectorKey(st, y))
         IN  <<m>> \o SortConnectors(st, cs \ {m})

IndexOf(v, x) == CHOOSE i \in 1..Len(v) : v[i] = x /\ \A j \in 1..(i - 1) : v[j] # x

\* conns, ctors, scheds: the old ids in their new order
RenumberedBy(st, conns, ctors, scheds) ==
    [st EXCEPT
        !.connections_by_shard_ =
            [s \in DOMAIN @ |-> [i \in 1..Len(@[s]) |-> IndexOf(conns, @[s][i])]],
        !.connection = [i \in 1..Len(conns) |-> @[conns[i]]],
        !.to_flush_ = {IndexOf(conns, p) : p \in @},
        !.pending_connections_ = [i \in 1..Len(ctors) |-> i],
        !.connector = [i \in 1..Len(ctors) |-> @[ctors[i]]],
        !.reconnection_schedules_ =
            [i \in 1..Len(ctors) |->
                [@[ctors[i]] EXCEPT !.id = IndexOf(scheds, @)]]]

Renumbered(st) ==
    CHOOSE r \in
        {RenumberedBy(st, conns, ctors,
                      [i \in 1..Len(ctors) |-> st.reconnection_schedules_[ctors[i]].id]) :
            conns \in {FlattenSlots(st, 0)
                         \o SortByShard(st, DOMAIN st.connection \ InSlots(st))},
            ctors \in {SortConnectors(st, DOMAIN st.connector)}} : TRUE

\* renumbering keeps every object: it applies when the slots hold each
\* connection once and the connector and schedule tables match the pending list
Canonical(st) ==
    IF /\ Elems(st.pending_connections_) = DOMAIN st.connector
       /\ DOMAIN st.connector = DOMAIN st.reconnection_schedules_
       /\ Len(st.pending_connections_) = Cardinality(DOMAIN st.connector)
       /\ Len(FlattenSlots(st, 0)) = Cardinality(InSlots(st))
       /\ InSlots(st) \subseteq DOMAIN st.connection
    THEN Renumbered(st)
    ELSE st

-----------------------------------------------------------------------------
(* ConnectionPool: construction *)

\* a supplied Connection: [shard_id, closing]

\* the remainder is dropped
num_connections_per_shard_floor(si, per_host) ==
    IF si # CassNullopt
    THEN per_host \div ValueOf(si).shards_count
    ELSE per_host

num_connections_per_shard(si, per_host) ==
    IF si # CassNullopt
    THEN (per_host \div ValueOf(si).shards_count)
         + (IF per_host % ValueOf(si).shards_count # 0 THEN 1 ELSE 0)
    ELSE per_host

\* What the build does where the language leaves the behaviour undefined:
\*   div  {v} for the value v that a division by zero leaves in
\*        num_connections_per_shard_, {} when the process stops there
\*   oob  what the size test reads on a slot that is out of range: "room",
\*        "full", or "trap" when the process stops there
\* NoUB is the choice in a run that meets no such access.
NoUB == [div |-> {}, oob |-> "trap"]

\* the loop over the supplied connections; a connection that is not closing
\* and finds no room is closed unwrapped, so the pool never hears of it
\* again. supplied keeps what became of each one: "closing" (skipped),
\* "placed", "closed", or "stray" (pushed onto a slot out of range).
RECURSIVE PlaceSupplied(_, _, _)
PlaceSupplied(st, conns, oob) ==
    IF conns = <<>> \/ st.crashed THEN st
    ELSE LET connection == Head(conns)
             p == FreshId(DOMAIN st.connection)
             in_range == connection.shard_id \in DOMAIN st.connections_by_shard_
             room == IF in_range
                     THEN Len(st.connections_by_shard_[connection.shard_id])
                            < st.num_connections_per_shard_
                     ELSE oob = "room"
             wrapped == NewPooledConnection(st, p, [shard_id |-> connection.shard_id,
                                                    keyspace |-> st.keyspace_])
             placed ==
                 IF connection.closing
                 THEN [st EXCEPT !.supplied = Append(@, "closing")]
                 ELSE IF ~in_range /\ oob = "trap"
                 THEN [st EXCEPT !.oob_access = TRUE, !.crashed = TRUE]
                 ELSE IF room /\ in_range
                 THEN [add_connection(wrapped, p) EXCEPT
                          !.supplied = Append(@, "placed")]
                 ELSE IF room
                 THEN [wrapped EXCEPT
                          !.metrics = IF @ # CassNullopt
                                      THEN Some(ValueOf(@) + 1) ELSE @,
                          !.oob_access = TRUE,
                          !.supplied = Append(@, "stray")]
                 ELSE [st EXCEPT !.oob_access = @ \/ ~in_range,
                                 !.supplied = Append(@, "closed")]
         IN  PlaceSupplied(placed, Tail(conns), oob)

\* every initial attempt is a plain reconnect
RECURSIVE ScheduleNeeded_plain(_, _, _)
ScheduleNeeded_plain(st, shard_num, needed) ==
    IF needed <= 0 THEN st
    ELSE ScheduleNeeded_plain(
             schedule_reconnect(st, CassNullopt, CassNullopt, {}),
             shard_num, needed - 1)

RECURSIVE ScheduleNeeded(_, _, _)
ScheduleNeeded(st, shard_num, needed) ==
    IF needed <= 0 THEN st
    ELSE ScheduleNeeded(
             schedule_reconnect(st, CassNullopt,
                                IF HasShardAwarePort(st) THEN Some(shard_num)
                                ELSE CassNullopt,
                                {}),
             shard_num, needed - 1)

RECURSIVE ScheduleAllNeeded(_, _)
ScheduleAllNeeded(st, shard_num) ==
    IF shard_num >= NumSlots(st) THEN st
    ELSE ScheduleAllNeeded(
             ScheduleNeeded(st, shard_num,
                            st.num_connections_per_shard_
                              - Len(st.connections_by_shard_[shard_num])),
             shard_num + 1)

\* the keyspace argument of the constructor: the session has none yet
NoKeyspace == ""

\* the constructor, with the choice ub of the build where it is needed
ConstructWith(si, per_host, conns, metrics, ub) ==
    LET slots == IF si # CassNullopt THEN ValueOf(si).shards_count ELSE 1
        by_zero == si # CassNullopt /\ ValueOf(si).shards_count = 0
        st0 == [host_sharding_info |-> si,
                keyspace_ |-> NoKeyspace,
                num_connections_per_shard_ |->
                    IF ~by_zero THEN num_connections_per_shard(si, per_host)
                    ELSE IF ub.div = {} THEN 0
                    ELSE ValueOf(ub.div),
                connections_by_shard_ |-> [s \in 0..(slots - 1) |-> <<>>],
                connection |-> <<>>,
                pending_connections_ |-> <<>>,
                connector |-> <<>>,
                reconnection_schedules_ |-> <<>>,
                close_state_ |-> CLOSE_STATE_OPEN,
                close_states |-> <<>>,
                notify_state_ |-> NOTIFY_STATE_NEW,
                to_flush_ |-> {},
                metrics |-> metrics,
                emitted |-> <<>>,
                supplied |-> <<>>,
                oob_access |-> FALSE,
                no_schedule |-> FALSE,
                crashed |-> by_zero /\ ub.div = {}]
        st1 == PlaceSupplied(st0, conns, ub.oob)
    IN  IF st1.crashed THEN st1
        ELSE ScheduleAllNeeded(notify_up_or_down(st1), 0)

ConnectionPool(si, per_host, conns, metrics) ==
    ConstructWith(si, per_host, conns, metrics, NoUB)

\* The hosts of the enumerated pools: no descriptor, or 1..MaxShards shards
\* with no shard-aware port, the plain one or the SSL one
ShardingInfos(msbs) ==
    {CassNullopt}
    \cup {Some([shards_count |-> n, sharding_ignore_MSB |-> m,
                shard_aware_port |-> pp[1], shard_aware_port_ssl |-> pp[2]]) :
            n \in 1..MaxShards, m \in msbs,
            pp \in {<<CassNullopt, CassNullopt>>, <<Some(19042), CassNullopt>>,
                    <<CassNullopt, Some(19142)>>}}

SlotsOf(si) == IF si # CassNullopt THEN ValueOf(si).shards_count ELSE 1

\* the connection lists handed to the constructor: up to MaxSupplied
\* connections of the host, each on one of its shards, closing or not
SuppliedTo(si) ==
    UNION {[1..k -> [shard_id : 0..(SlotsOf(si) - 1), closing : BOOLEAN]] :
             k \in 0..MaxSupplied}

LbIdle == [done |-> FALSE, token |-> <<0, 0, 0, 0>>, result |-> CassNullopt]

\* the pool once its constructor has returned
Constructed(si, per_host, conns, metrics) ==
    Canonical([ConnectionPool(si, per_host, conns, metrics) EXCEPT
                  !.emitted = <<>>, !.supplied = <<>>])

Init ==
    /\ \E si \in ShardingInfos({0}), per_host \in 0..MaxPerHost :
         \E conns \in SuppliedTo(si) :
            pool = Constructed(si, per_host, conns, CassNullopt)
    /\ lb = LbIdle
    /\ args = NoArgs
    /\ calculator = NoCalculator
    /\ listener = NopListener
    /\ MathIdle
    /\ ParseIdle

-----------------------------------------------------------------------------
(* ConnectionPool: events *)

\* events of one kind are counted up to MaxCount
MaxCount == 2
\* metrics_->total_connections is followed down to MaxDrift below the number
\* of connections in slots
MaxDrift == 1

Counted(n) == IF n < MaxCount THEN n + 1 ELSE n

\* a recording listener after the calls events, made in this order by one
\* handler: last keeps them, the other fields sum up all calls so far
RECURSIVE HeardEach(_, _)
Heard(l, events) == HeardEach([l EXCEPT !.last = events], events)
HeardEach(l, events) ==
    IF events = <<>> THEN l
    ELSE LET e == Head(events)
             l1 == IF e = on_pool_up
                   THEN [l EXCEPT !.ups = Counted(@),
                                  !.repeated = @ \/ l.last_up_down = "up",
                                  !.last_up_down = "up"]
                   ELSE IF e = on_pool_down
                   THEN [l EXCEPT !.downs = Counted(@),
                                  !.repeated = @ \/ l.last_up_down = "down",
                                  !.last_up_down = "down"]
                   ELSE IF e = on_pool_critical_error
                   THEN [l EXCEPT !.critical_errors = Counted(@)]
                   ELSE IF e = on_requires_flush
                   THEN [l EXCEPT !.requires_flush = Counted(@)]
                   ELSE [l EXCEPT !.closes = Counted(@)]
         IN  HeardEach(l1, Tail(events))

\* the caps that keep the model finite
WithinLoad(st, load) ==
    /\ Len(st.pending_connections_) + Cardinality(DOMAIN st.connection) <= load
    /\ st.metrics # CassNullopt
         => Cardinality(InSlots(st)) - ValueOf(st.metrics) <= MaxDrift
    /\ \A c \in DOMAIN st.reconnection_schedules_ :
          st.reconnection_schedules_[c].calls <= MaxCalls

WithinBounds(st) == WithinLoad(st, MaxLoad)

\* l: the listener as the handler finds it; load: the cap on the objects
StepUpTo(st, l, load) ==
    \E s \in {st} :
        /\ WithinLoad(s, load)
        /\ pool' = Canonical([s EXCEPT !.emitted = <<>>, !.close_states = <<>>])
        /\ listener' = IF l.recording
                       THEN LET Heeded(e) == e \in l.heeds
                            IN  Heard(l, SelectSeq(s.emitted, Heeded))
                       ELSE l
        /\ lb' = LbIdle
        /\ UNCHANGED <<args, mathVars, parseVars, portVars>>

StepHeard(st, l) == StepUpTo(st, l, MaxLoad)

Step(st) == StepHeard(st, listener)

\* Objects that carry the same data are interchangeable: an event is taken
\* for the first of them, and cancel() fires at once on the first ones
FirstConnector(c) ==
    \A d \in DOMAIN pool.connector :
        (/\ d < c
         /\ pool.connector[d] = pool.connector[c]
         /\ pool.reconnection_schedules_[d].calls = pool.reconnection_schedules_[c].calls)
        => FALSE

FirstConnection(p) ==
    \A q \in DOMAIN pool.connection :
        (/\ q < p
         /\ pool.connection[q] = pool.connection[p]
         /\ (q \in InSlots(pool)) = (p \in InSlots(pool)))
        => FALSE

\* the sets of pending connectors, c apart, whose cancel() fires at once
SyncSets(c) ==
    {sync \in SUBSET (DOMAIN pool.connector \ {c}) :
        \A d \in sync, e \in DOMAIN pool.connector \ {c} :
            (/\ e < d
             /\ pool.connector[e] = pool.connector[d]
             /\ pool.reconnection_schedules_[e].calls
                  = pool.reconnection_schedules_[d].calls)
            => e \in sync}

\* the shard ids a new connection may report: 0 on a host without
\* descriptor, else any shard of the host or one past the last
ReportedShards ==
    IF pool.host_sharding_info = CassNullopt THEN {0} ELSE 0..NumSlots(pool)

\* a pending connector connects; the server has put it on shard
ConnectorOk ==
    /\ ~pool.crashed
    /\ \E c \in DOMAIN pool.connector, shard \in ReportedShards :
        /\ ~pool.connector[c].canceled
        /\ FirstConnector(c)
        /\ Step(on_reconnect(pool, c, "ok", shard, {}))

ConnectorTransient ==
    /\ ~pool.crashed
    /\ \E c \in DOMAIN pool.connector :
        /\ ~pool.connector[c].canceled
        /\ FirstConnector(c)
        /\ Step(on_reconnect(pool, c, "transient", 0, {}))

ConnectorCritical ==
    /\ ~pool.crashed
    /\ \E c \in DOMAIN pool.connector :
        /\ ~pool.connector[c].canceled
        /\ FirstConnector(c)
        /\ \E sync \in SyncSets(c) :
              Step(on_reconnect(pool, c, "critical", 0, sync))

\* a cancelled connector fires its callback
ConnectorCanceled ==
    /\ ~pool.crashed
    /\ \E c \in DOMAIN pool.connector :
        /\ pool.connector[c].canceled
        /\ FirstConnector(c)
        /\ Step(on_reconnect(pool, c, "canceled", 0, {}))

\* remote hangup or heartbeat timeout: a pooled connection turns closing
ConnectionHangup ==
    /\ ~pool.crashed
    /\ \E p \in InSlots(pool) :
        /\ ~pool.connection[p].closing
        /\ Step(PooledConnection_close(pool, p))

\* a closing pooled connection delivers its close notification and is gone;
\* after an out-of-range access the process either goes on or ends
ConnectionClosed ==
    /\ ~pool.crashed
    /\ \E p \in DOMAIN pool.connection :
        /\ pool.connection[p].closing
        /\ FirstConnection(p)
        /\ LET st == close_connection(pool, p)
           IN  \/ Step([st EXCEPT !.connection = MapErase(@, p)])
               \/ /\ st.oob_access
                  /\ Step([pool EXCEPT !.oob_access = TRUE, !.crashed = TRUE])

\* ConnectionPool::close()
Close ==
    /\ ~pool.crashed
    /\ pool.close_state_ = CLOSE_STATE_OPEN
    /\ \E sync \in SyncSets(0) :
          Step(internal_close(pool, sync))

\* close() on a pool that is not OPEN
CloseAgain ==
    /\ ~pool.crashed
    /\ pool.close_state_ # CLOSE_STATE_OPEN
    /\ Step(internal_close(pool, {}))

Next ==
    \/ ConnectorOk
    \/ ConnectorTransient
    \/ ConnectorCritical
    \/ ConnectorCanceled
    \/ ConnectionHangup
    \/ ConnectionClosed
    \/ Close
    \/ CloseAgain

Spec == Init /\ [][Next]_vars

-----------------------------------------------------------------------------
(* ConnectionPool::find_least_busy *)

\* a connection carries up to MaxInflight requests without a response
MaxInflight == 1

least_busy_comp(st, a, b) ==
    IF st.connection[a].closing THEN FALSE
    ELSE IF st.connection[b].closing THEN TRUE
    ELSE st.connection[a].inflight < st.connection[b].inflight

\* of two that tie the later one is returned
Min_prefers_later(st, a, b) == IF least_busy_comp(st, a, b) THEN a ELSE b

\* std::min(a, b, least_busy_comp)
Min(st, a, b) == IF least_busy_comp(st, b, a) THEN b ELSE a

\* std::min_element(v.begin(), v.end(), least_busy_comp): the position of
\* the first smallest element, 0 for end()
RECURSIVE MinElementFrom(_, _, _, _)
MinElementFrom(st, v, i, smallest) ==
    IF i > Len(v) THEN smallest
    ELSE MinElementFrom(st, v, i + 1,
                        IF least_busy_comp(st, v[i], v[smallest]) THEN i
                        ELSE smallest)

min_element(st, v) == IF v = <<>> THEN 0 ELSE MinElementFrom(st, v, 2, 1)

\* the loop takes closing connections too
RECURSIVE LeastBusyOfAll_unfiltered(_, _, _)
LeastBusyOfAll_unfiltered(st, conns, least_busy) ==
    IF conns = <<>> THEN least_busy
    ELSE LeastBusyOfAll_unfiltered(
             st, Tail(conns),
             IF least_busy # CassNullopt
             THEN Some(Min(st, ValueOf(least_busy), Head(conns)))
             ELSE Some(Head(conns)))

\* the loop over the connections of every slot, in slot order; least_busy
\* is CassNullopt for NULL
RECURSIVE LeastBusyOfAll(_, _, _)
LeastBusyOfAll(st, conns, least_busy) ==
    IF conns = <<>> THEN least_busy
    ELSE LET conn == Head(conns)
         IN  LeastBusyOfAll(
                 st, Tail(conns),
                 IF ~st.connection[conn].closing
                 THEN IF least_busy # CassNullopt
                      THEN Some(Min(st, ValueOf(least_busy), conn))
                      ELSE Some(conn)
                 ELSE least_busy)

RECURSIVE find_least_busy(_, _)

\* the token is not looked at
find_least_busy_whole_pool(st, tok) ==
    LeastBusyOfAll(st, FlattenSlots(st, 0), CassNullopt)

\* the best candidate of the slot is returned even when it is closing
find_least_busy_keep_closing(st, tok) ==
    IF tok = INT64_MIN \/ st.host_sharding_info = CassNullopt
    THEN LeastBusyOfAll(st, FlattenSlots(st, 0), CassNullopt)
    ELSE LET si == ValueOf(st.host_sharding_info)
             shard_pool ==
                 st.connections_by_shard_[
                     shard_id(tok, si.shards_count, si.sharding_ignore_MSB)]
             it == min_element(st, shard_pool)
         IN  IF it = 0 THEN find_least_busy(st, INT64_MIN)
             ELSE Some(shard_pool[it])

\* the result is CassNullopt for NULL
find_least_busy(st, tok) ==
    IF tok = INT64_MIN \/ st.host_sharding_info = CassNullopt
    THEN LeastBusyOfAll(st, FlattenSlots(st, 0), CassNullopt)
    ELSE LET si == ValueOf(st.host_sharding_info)
             shard_pool ==
                 st.connections_by_shard_[
                     shard_id(tok, si.shards_count, si.sharding_ignore_MSB)]
             it == min_element(st, shard_pool)
         IN  IF it = 0 \/ st.connection[shard_pool[it]].closing
             THEN find_least_busy(st, INT64_MIN)
             ELSE Some(shard_pool[it])

\* the tokens asked for: the placeholder, the smallest and the largest
\* sensible token and the middle one
DispatchTokens == {INT64_MIN, <<1, 0, 0, 32768>>, <<0, 0, 0, 0>>, INT64_MAX}

\* the hosts of the pools asked: no descriptor, or 1..MaxShards shards with
\* no or every ignored bit (the ports play no part in the choice)
DispatchHosts ==
    {si \in ShardingInfos({0, MaxIgnoreMsb}) :
        si # CassNullopt =>
            /\ ValueOf(si).shard_aware_port = CassNullopt
            /\ ValueOf(si).shard_aware_port_ssl = CassNullopt}

InitDispatch ==
    /\ \E si \in DispatchHosts, per_host \in 0..MaxPerHost :
         \E conns \in SuppliedTo(si) :
            pool = Constructed(si, per_host, conns, CassNullopt)
    /\ lb = LbIdle
    /\ args = NoArgs
    /\ calculator = NoCalculator
    /\ listener = NopListener
    /\ MathIdle
    /\ ParseIdle

\* a request is written on a connection of the pool
Write ==
    \E p \in InSlots(pool) :
        /\ ~pool.connection[p].closing
        /\ pool.connection[p].inflight < MaxInflight
        /\ pool' = [pool EXCEPT !.connection[p].inflight = @ + 1]
        /\ lb' = LbIdle
        /\ UNCHANGED <<listener, args, mathVars, parseVars, portVars>>

\* the response to a request arrives
Response ==
    \E p \in InSlots(pool) :
        /\ pool.connection[p].inflight > 0
        /\ pool' = [pool EXCEPT !.connection[p].inflight = @ - 1]
        /\ lb' = LbIdle
        /\ UNCHANGED <<listener, args, mathVars, parseVars, portVars>>

FindLeastBusy ==
    \E tok \in DispatchTokens :
        /\ lb' = [done |-> TRUE, token |-> tok,
                  result |-> find_least_busy(pool, tok)]
        /\ UNCHANGED <<pool, listener, args, mathVars, parseVars, portVars>>

NextDispatch ==
    \/ Write
    \/ Response
    \/ ConnectionHangup
    \/ FindLeastBusy

SpecDispatch == InitDispatch /\ [][NextDispatch]_vars

-----------------------------------------------------------------------------
(* A pool with a listener that records and with metrics *)

RecordingListener ==
    [NopListener EXCEPT
        !.recording = TRUE,
        !.heeds = {on_pool_up, on_pool_down, on_pool_critical_error, on_close,
                   on_requires_flush}]

\* the hosts of these pools: no descriptor, or 1..MaxShards shards and no
\* shard-aware port (the port decides desired_shard_num only)
ListenerHosts ==
    {si \in ShardingInfos({0}) :
        si # CassNullopt =>
            /\ ValueOf(si).shard_aware_port = CassNullopt
            /\ ValueOf(si).shard_aware_port_ssl = CassNullopt}

InitListener ==
    /\ \E si \in ListenerHosts, per_host \in 0..MaxPerHost :
         \E conns \in SuppliedTo(si) :
            /\ pool = Constructed(si, per_host, conns, Some(0))
            /\ listener = Heard(RecordingListener,
                                ConnectionPool(si, per_host, conns, Some(0)).emitted)
    /\ lb = LbIdle
    /\ args = NoArgs
    /\ calculator = NoCalculator
    /\ MathIdle
    /\ ParseIdle

SpecListener == InitListener /\ [][Next]_vars

\* the same pools without metrics
InitClosing ==
    /\ \E si \in ListenerHosts, per_host \in 0..MaxPerHost :
         \E conns \in SuppliedTo(si) :
            /\ pool = Constructed(si, per_host, conns, CassNullopt)
            /\ listener = Heard(RecordingListener,
                                ConnectionPool(si, per_host, conns, CassNullopt).emitted)
    /\ lb = LbIdle
    /\ args = NoArgs
    /\ calculator = NoCalculator
    /\ MathIdle
    /\ ParseIdle

\* every closed connection delivers its close notification and every
\* cancelled connector fires its callback
SpecClosing ==
    /\ InitClosing
    /\ [][Next]_vars
    /\ WF_vars(ConnectionClosed)
    /\ WF_vars(ConnectorCanceled)

-----------------------------------------------------------------------------
(* A pool whose connections write and whose listener flushes *)

\* PooledConnection::write() on a connection with an empty buffer: the
\* buffer is not empty any more and the connection registers for flushing
RequiresFlush ==
    /\ ~pool.crashed
    /\ \E p \in InSlots(pool) :
        /\ ~pool.connection[p].closing
        /\ ~pool.connection[p].buffered
        /\ StepHeard(requires_flush([pool EXCEPT !.connection[p].buffered = TRUE], p),
                     [listener EXCEPT !.registered = TRUE])

\* ConnectionPool::flush(), called by the listener; the listener starts to
\* count anew
Flush ==
    /\ ~pool.crashed
    /\ StepHeard(flush(pool),
                 [listener EXCEPT !.registered = FALSE, !.requires_flush = 0])

\* a listener that records the flush requests only
FlushListener == [RecordingListener EXCEPT !.heeds = {on_requires_flush}]

InitFlush ==
    /\ \E si \in ShardingInfos({0}), per_host \in 0..MaxPerHost :
         \E conns \in SuppliedTo(si) :
            pool = Constructed(si, per_host, conns, CassNullopt)
    /\ listener = FlushListener
    /\ lb = LbIdle
    /\ args = NoArgs
    /\ calculator = NoCalculator
    /\ MathIdle
    /\ ParseIdle

\* the pool stays OPEN: connections come, write, are flushed and go
NextFlush ==
    \/ ConnectorOk
    \/ ConnectionHangup
    \/ ConnectionClosed
    \/ RequiresFlush
    \/ Flush

SpecFlush == InitFlush /\ [][NextFlush]_vars

-----------------------------------------------------------------------------
(* A pool whose session changes its keyspace *)

\* the keyspaces that set_keyspace() is called with
Keyspaces == {"ks1", "ks2"}

\* ConnectionPool::set_keyspace(), called for a USE statement of the session
SetKeyspace ==
    /\ ~pool.crashed
    /\ \E keyspace \in Keyspaces :
          /\ keyspace # pool.keyspace_
          /\ Step(set_keyspace(pool, keyspace))

NextKeyspace ==
    \/ ConnectorOk
    \/ ConnectionHangup
    \/ ConnectionClosed
    \/ SetKeyspace

InitKeyspace ==
    /\ \E si \in ListenerHosts, per_host \in 0..MaxPerHost :
          pool = Constructed(si, per_host, <<>>, CassNullopt)
    /\ lb = LbIdle
    /\ args = NoArgs
    /\ calculator = NoCalculator
    /\ listener = NopListener
    /\ MathIdle
    /\ ParseIdle

SpecKeyspace == InitKeyspace /\ [][NextKeyspace]_vars

-----------------------------------------------------------------------------
(* ShardPortCalculator *)

(* calculator is a record of the ShardPortCalculator's members and of its    *)
(* last call:                                                                *)
(*   local_port_range_lo_, local_port_range_hi_                              *)
(*   port_states_   port -> BOOLEAN over [lo, hi): TRUE for a port that can  *)
(*                  be bound, FALSE for one marked used                      *)
(*   ret            [done, shard_cnt, port] of the last                      *)
(*                  calc_outgoing_port_num call; port is a CassOptional      *)

\* the largest number of shards of a host
MaxPortShards == 64
\* the longest client-port range
MaxPorts == 6
\* where the client-port ranges start
PortRangeLos == {10000, 10003}
\* the numbers of shards of the calls that are followed
PortShardCounts == {1, 2, 3, MaxPortShards}

NoCall == [done |-> FALSE, shard_cnt |-> 1, port |-> CassNullopt]

\* ShardPortCalculator(lo, hi): every port of the range can be bound
ShardPortCalculator(local_port_range_lo, local_port_range_hi) ==
    [done |-> TRUE,
     local_port_range_lo_ |-> local_port_range_lo,
     local_port_range_hi_ |-> local_port_range_hi,
     port_states_ |-> [p \in local_port_range_lo..(local_port_range_hi - 1) |-> TRUE],
     ret |-> NoCall]

\* the ports of the range that reach the desired shard
PortsOfShard(calc, shard_cnt, desired_shard_id) ==
    {p \in calc.local_port_range_lo_..(calc.local_port_range_hi_ - 1) :
        p % shard_cnt = desired_shard_id}

\* ports marked used are handed out again
calc_outgoing_port_num_any_state(calc, shard_cnt, desired_shard_id) ==
    LET ports == PortsOfShard(calc, shard_cnt, desired_shard_id)
    IN  IF ports = {} THEN {[port |-> CassNullopt, calc |-> calc]}
        ELSE {[port |-> Some(p),
               calc |-> [calc EXCEPT !.port_states_[p] = FALSE]] : p \in ports}

\* calc_outgoing_port_num: the outcomes the call can have, each the port
\* returned (CassNullopt for no preference) and the calculator afterwards;
\* any port of the range that reaches the shard and is not marked used may be
\* returned, and it is marked used
calc_outgoing_port_num(calc, shard_cnt, desired_shard_id) ==
    LET ports == {p \in PortsOfShard(calc, shard_cnt, desired_shard_id) :
                    calc.port_states_[p]}
    IN  IF ports = {} THEN {[port |-> CassNullopt, calc |-> calc]}
        ELSE {[port |-> Some(p),
               calc |-> [calc EXCEPT !.port_states_[p] = FALSE]] : p \in ports}

InitPort ==
    /\ \E lo \in PortRangeLos, n \in 0..MaxPorts :
          calculator = ShardPortCalculator(lo, lo + n)
    /\ PoolIdle
    /\ MathIdle
    /\ ParseIdle

\* a connector asks for a local port that reaches its desired shard
CalcOutgoingPortNum ==
    /\ \E shard_cnt \in PortShardCounts :
       \E desired_shard_id \in 0..(shard_cnt - 1) :
       \E out \in calc_outgoing_port_num(calculator, shard_cnt, desired_shard_id) :
          calculator' = [out.calc EXCEPT
                            !.ret = [done |-> TRUE, shard_cnt |-> shard_cnt,
                                     port |-> out.port]]
    /\ UNCHANGED <<mathVars, parseVars, poolVars>>

\* the connection that was given port p completes or fails: p can be bound again
ReleasePort ==
    /\ \E p \in DOMAIN calculator.port_states_ :
          /\ ~calculator.port_states_[p]
          /\ calculator' = [calculator EXCEPT !.port_states_[p] = TRUE]
    /\ UNCHANGED <<mathVars, parseVars, poolVars>>

NextPort == CalcOutgoingPortNum \/ ReleasePort

SpecPort == InitPort /\ [][NextPort]_vars

-----------------------------------------------------------------------------
(* A pool that fills its slots: k shards, k connections, no shard-aware port *)

\* the most shards of such a host
MaxConvergeShards == 3
\* the most attempts and connections of such a pool
MaxConvergeLoad == 5

ConvergeHosts ==
    {Some([shards_count |-> k, sharding_ignore_MSB |-> 0,
           shard_aware_port |-> CassNullopt,
           shard_aware_port_ssl |-> CassNullopt]) : k \in 1..MaxConvergeShards}

InitConverge ==
    /\ \E si \in ConvergeHosts :
         \E conns \in SuppliedTo(si) :
            pool = Constructed(si, ValueOf(si).shards_count, conns, CassNullopt)
    /\ lb = LbIdle
    /\ args = NoArgs
    /\ calculator = NoCalculator
    /\ listener = NopListener
    /\ MathIdle
    /\ ParseIdle

\* a pending connector connects; the server has put the connection on one of
\* the host's shards
ConvergeOk ==
    /\ ~pool.crashed
    /\ \E c \in DOMAIN pool.connector, shard \in 0..(NumSlots(pool) - 1) :
        /\ FirstConnector(c)
        /\ StepUpTo(on_reconnect(pool, c, "ok", shard, {}), listener,
                    MaxConvergeLoad)

\* a connection that was turned away delivers its close notification
ConvergeClosed ==
    /\ ~pool.crashed
    /\ \E p \in DOMAIN pool.connection :
        /\ pool.connection[p].closing
        /\ FirstConnection(p)
        /\ StepUpTo([close_connection(pool, p) EXCEPT !.connection = MapErase(@, p)],
                    listener, MaxConvergeLoad)

NextConverge == ConvergeOk \/ ConvergeClosed

\* every attempt completes and every closed connection delivers its close
\* notification
SpecConverge ==
    /\ InitConverge
    /\ [][NextConverge]_vars
    /\ WF_vars(ConvergeOk)
    /\ WF_vars(ConvergeClosed)

-----------------------------------------------------------------------------
(* One call of the constructor, on every host and supplied list *)

\* the largest num_connections_per_host of a constructor call
MaxTotal == 4

\* hosts as parsed descriptors give them: no descriptor, or any shard count
\* that parse_int returns, 0 included
ConstructHosts ==
    {CassNullopt}
    \cup {Some([shards_count |-> n, sharding_ignore_MSB |-> 0,
                shard_aware_port |-> pp[1], shard_aware_port_ssl |-> pp[2]]) :
            n \in 0..MaxShards,
            pp \in {<<CassNullopt, CassNullopt>>, <<Some(19042), CassNullopt>>,
                    <<CassNullopt, Some(19142)>>}}

\* supplied connections report the shard the server gave them: 0 on a host
\* without descriptor, else any of 0..shards_count (the last is out of range)
SuppliedFrom(si) ==
    UNION {[1..k -> [shard_id : 0..(IF si = CassNullopt THEN 0
                                     ELSE ValueOf(si).shards_count),
                     closing : BOOLEAN]] :
             k \in 0..MaxSupplied}

UBChoices ==
    [div : {{}} \cup {{v} : v \in 0..MaxTotal}, oob : {"trap", "room", "full"}]

InitConstruct ==
    /\ \E si \in ConstructHosts, per_host \in 0..MaxTotal :
         \E conns \in SuppliedFrom(si) :
            args = [done |-> FALSE, si |-> si, per_host |-> per_host,
                    conns |-> conns]
    /\ pool = <<>>
    /\ calculator = NoCalculator
    /\ lb = LbIdle
    /\ listener = NopListener
    /\ MathIdle
    /\ ParseIdle

Construct ==
    /\ ~args.done
    /\ \E ub \in UBChoices :
          pool' = ConstructWith(args.si, args.per_host, args.conns,
                                CassNullopt, ub)
    /\ args' = [args EXCEPT !.done = TRUE]
    /\ UNCHANGED <<lb, listener, mathVars, parseVars, portVars>>

NextConstruct == Construct

SpecConstruct == InitConstruct /\ [][NextConstruct]_vars

-----------------------------------------------------------------------------
(* Dispatch claims, checked under SpecDispatch *)

Sharded == pool.host_sharding_info # CassNullopt

\* the slot a sensible token leads to
SlotOf(tok) ==
    pool.connections_by_shard_[
        shard_id(tok, ValueOf(pool.host_sharding_info).shards_count,
                 ValueOf(pool.host_sharding_info).sharding_ignore_MSB)]

NonClosing(ps) == {p \in ps : ~pool.connection[p].closing}

\* r is one of ps and none of ps carries fewer requests
LeastOf(ps, r) ==
    /\ r \in ps
    /\ \A q \in ps : pool.connection[r].inflight <= pool.connection[q].inflight

\* C1: with a sharding descriptor and a sensible token whose slot holds a
\* connection that is not closing, find_least_busy returns a connection of
\* that slot that is not closing and carries the fewest requests among the
\* slot's connections that are not closing, whatever the other slots hold.
C1_LeastBusyOfTokenSlot ==
    (/\ lb.done
     /\ lb.token # INT64_MIN
     /\ Sharded
     /\ NonClosing(Elems(SlotOf(lb.token))) # {})
    => /\ lb.result # CassNullopt
       /\ LeastOf(NonClosing(Elems(SlotOf(lb.token))), ValueOf(lb.result))

\* the result is of the token's slot although another slot holds a
\* connection that is not closing and carries fewer requests
C1_Witness ==
    /\ lb.done
    /\ lb.token # INT64_MIN
    /\ Sharded
    /\ lb.result # CassNullopt
    /\ ValueOf(lb.result) \in Elems(SlotOf(lb.token))
    /\ \E q \in NonClosing(InSlots(pool)) :
          /\ q \notin Elems(SlotOf(lb.token))
          /\ pool.connection[q].inflight
               < pool.connection[ValueOf(lb.result)].inflight

\* C2: with a sharding descriptor and a sensible token whose slot is empty
\* or holds closing connections only, find_least_busy returns what
\* find_least_busy(placeholder) returns.
C2_FallsBackToWholePool ==
    (/\ lb.done
     /\ lb.token # INT64_MIN
     /\ Sharded
     /\ NonClosing(Elems(SlotOf(lb.token))) = {})
    => lb.result = find_least_busy(pool, INT64_MIN)

\* the token's slot holds closing connections only and the result is a
\* connection of another slot
C2_Witness ==
    /\ lb.done
    /\ lb.token # INT64_MIN
    /\ Sharded
    /\ SlotOf(lb.token) # <<>>
    /\ NonClosing(Elems(SlotOf(lb.token))) = {}
    /\ lb.result # CassNullopt
    /\ ValueOf(lb.result) \notin Elems(SlotOf(lb.token))

\* C3: for the placeholder token, or without a sharding descriptor,
\* find_least_busy returns none exactly when no slot holds a connection that
\* is not closing, and otherwise a connection that is not closing and carries
\* the fewest requests among all such connections of all slots.
C3_LeastBusyOfWholePool ==
    (lb.done /\ (lb.token = INT64_MIN \/ ~Sharded))
    => /\ lb.result = CassNullopt <=> NonClosing(InSlots(pool)) = {}
       /\ lb.result # CassNullopt
            => LeastOf(NonClosing(InSlots(pool)), ValueOf(lb.result))

\* a sensible token on a host without descriptor: the result carries more
\* requests than a closing connection of the pool
C3_Witness ==
    /\ lb.done
    /\ lb.token # INT64_MIN
    /\ ~Sharded
    /\ lb.result # CassNullopt
    /\ \E q \in InSlots(pool) :
          /\ pool.connection[q].closing
          /\ pool.connection[q].inflight
               < pool.connection[ValueOf(lb.result)].inflight

-----------------------------------------------------------------------------
(* Pool claims, checked under Spec *)

\* C8: in every reachable state every slot holds at most
\* num_connections_per_shard_ connections.
C8_SlotWithinLimit ==
    \A s \in DOMAIN pool.connections_by_shard_ :
        Len(pool.connections_by_shard_[s]) <= pool.num_connections_per_shard_

\* a connector's connection was turned away from a slot that is full
C8_Witness ==
    /\ pool.num_connections_per_shard_ >= 1
    /\ \E p \in DOMAIN pool.connection \ InSlots(pool) :
          /\ pool.connection[p].shard_id \in DOMAIN pool.connections_by_shard_
          /\ Len(pool.connections_by_shard_[pool.connection[p].shard_id])
               = pool.num_connections_per_shard_

\* C9 as stated: in every reachable state, closing, CLOSED and after a
\* critical error included, notify_state_ is UP exactly when some slot holds
\* a connection.
C9_UpIffConnected ==
    pool.notify_state_ = NOTIFY_STATE_UP <=> has_connections(pool)

\* C9 as the code has it: while close_state_ is OPEN, notify_state_ is UP
\* exactly when some slot holds a connection; in every state a pool with a
\* connection in a slot is UP or CRITICAL.
C9_UpIffConnectedWhileOpen ==
    /\ pool.close_state_ = CLOSE_STATE_OPEN
         => (pool.notify_state_ = NOTIFY_STATE_UP <=> has_connections(pool))
    /\ has_connections(pool)
         => pool.notify_state_ \in {NOTIFY_STATE_UP, NOTIFY_STATE_CRITICAL}

\* after a critical error the connections wait in their slots for their
\* close notifications
C9_Witness ==
    /\ pool.close_state_ = CLOSE_STATE_WAITING_FOR_CONNECTIONS
    /\ pool.notify_state_ = NOTIFY_STATE_CRITICAL
    /\ has_connections(pool)

\* C10 as stated: for an OPEN pool the pending reconnect attempts and the
\* connections in slots together never exceed num_connections_per_shard_
\* times the number of slots.
C10_LoadWithinTarget ==
    pool.close_state_ = CLOSE_STATE_OPEN
    => Len(pool.pending_connections_) + Cardinality(InSlots(pool))
         <= pool.num_connections_per_shard_ * NumSlots(pool)

-----------------------------------------------------------------------------
(* Listener and metrics claims, checked under SpecListener *)

RECURSIVE SumOfSlots(_, _)
SumOfSlots(st, s) ==
    IF s >= NumSlots(st) THEN 0
    ELSE Len(st.connections_by_shard_[s]) + SumOfSlots(st, s + 1)

\* C11 as stated: in every reachable state the total-connections count
\* equals the sum of the slot sizes, and no connection is in two slots (or
\* twice in one).
C11_TotalIsSlotSum ==
    /\ pool.metrics # CassNullopt => ValueOf(pool.metrics) = SumOfSlots(pool, 0)
    /\ Cardinality(InSlots(pool)) = SumOfSlots(pool, 0)

\* C12: the listener never receives two on_pool_up calls without an
\* on_pool_down between them, nor two on_pool_down calls without an
\* on_pool_up between them, the on_pool_down at CLOSED included.
C12_UpDownAlternate == ~listener.repeated

\* a pool that was UP has closed: its last up/down call is the
\* on_pool_down made on reaching CLOSED, after an earlier DOWN and UP
C12_Witness ==
    /\ pool.close_state_ = CLOSE_STATE_CLOSED
    /\ pool.notify_state_ = NOTIFY_STATE_UP
    /\ listener.last_up_down = "down"
    /\ listener.downs = MaxCount
    /\ listener.ups >= 1

\* the number of calls e among events
Times(events, e) == Cardinality({i \in 1..Len(events) : events[i] = e})

\* C13: on_pool_critical_error is called at most once in the pool's life,
\* however many connectors complete with a critical error; a critical
\* completion on an OPEN pool calls it once, sets notify_state_ to CRITICAL
\* and leaves OPEN in the same step, with every connection of the slots
\* closed and every other pending connector cancelled; on a pool that is not
\* OPEN a critical completion calls nothing.
C13_CriticalOnceAndCloses ==
    /\ listener.critical_errors <= 1
    /\ pool.notify_state_ = NOTIFY_STATE_CRITICAL
         => pool.close_state_ # CLOSE_STATE_OPEN
    /\ \A c \in DOMAIN pool.connector :
         \A sync \in SUBSET (DOMAIN pool.connector \ {c}) :
            LET st == on_reconnect(pool, c, "critical", 0, sync)
            IN  IF pool.close_state_ = CLOSE_STATE_OPEN
                THEN /\ st.notify_state_ = NOTIFY_STATE_CRITICAL
                     /\ st.close_state_ # CLOSE_STATE_OPEN
                     /\ Times(st.emitted, on_pool_critical_error) = 1
                     /\ \A p \in InSlots(st) : st.connection[p].closing
                     /\ \A d \in DOMAIN st.connector : st.connector[d].canceled
                ELSE Times(st.emitted, on_pool_critical_error) = 0

\* a critical completion has just closed a pool that still waits for a
\* connection of a slot and for a cancelled connector
C13_Witness ==
    /\ listener.critical_errors = 1
    /\ Times(listener.last, on_pool_critical_error) = 1
    /\ pool.close_state_ = CLOSE_STATE_WAITING_FOR_CONNECTIONS
    /\ has_connections(pool)
    /\ \E d \in DOMAIN pool.connector : pool.connector[d].canceled

\* C14 as stated: a pool that never held a connection and is closed by a
\* critical error has called on_pool_critical_error once, on_close once once
\* CLOSED, and on_pool_down never since its construction.
C14_NoDownSinceConstruction ==
    (listener.ups = 0 /\ listener.critical_errors >= 1)
    => /\ listener.critical_errors = 1
       /\ pool.close_state_ = CLOSE_STATE_CLOSED => listener.closes = 1
       /\ listener.downs = 0

\* C14 as the code has it: a pool that never held a connection has called
\* on_pool_down exactly once, from its constructor (NEW to DOWN); when a
\* critical error closes it, on_pool_critical_error is called once, on_close
\* once on reaching CLOSED, and on_pool_down not again.
C14_OneDownFromConstructor ==
    listener.ups = 0
    => /\ listener.downs = 1
       /\ listener.critical_errors >= 1
            => /\ listener.critical_errors = 1
               /\ listener.closes <= 1
               /\ pool.close_state_ = CLOSE_STATE_CLOSED <=> listener.closes = 1
               /\ Times(listener.last, on_pool_down) = 0

\* the first completion of a pool built without connections was a critical
\* error and the pool is CLOSED
C14_Witness ==
    /\ pool.close_state_ = CLOSE_STATE_CLOSED
    /\ listener.last = <<on_pool_critical_error, on_close>>
    /\ listener.ups = 0
    /\ listener.downs = 1
    /\ listener.critical_errors = 1
    /\ listener.closes = 1

\* C16: on_close is called at most once, in the step that reaches CLOSED,
\* when every slot is empty and no reconnect attempt is pending; it is the
\* last call of that step and, if notify_state_ is UP, on_pool_down is the
\* call just before it.
C16_CloseOnceWhenDrained ==
    /\ listener.closes <= 1
    /\ pool.close_state_ = CLOSE_STATE_CLOSED <=> listener.closes = 1
    /\ pool.close_state_ = CLOSE_STATE_CLOSED
         => ~has_connections(pool) /\ pool.pending_connections_ = <<>>
    /\ Times(listener.last, on_close) >= 1
         => /\ pool.close_state_ = CLOSE_STATE_CLOSED
            /\ Times(listener.last, on_close) = 1
            /\ listener.last[Len(listener.last)] = on_close
            /\ pool.notify_state_ = NOTIFY_STATE_UP
                 => /\ Len(listener.last) >= 2
                    /\ listener.last[Len(listener.last) - 1] = on_pool_down

\* a pool that was UP has just reached CLOSED
C16_Witness ==
    /\ pool.close_state_ = CLOSE_STATE_CLOSED
    /\ pool.notify_state_ = NOTIFY_STATE_UP
    /\ listener.last = <<on_pool_down, on_close>>
    /\ listener.closes = 1

\* C15: close() on a pool that is not OPEN changes nothing of the pool
\* (close_state_, notify_state_, slots, connections, pending connectors,
\* schedules) and calls nothing on the listener, whichever cancel callbacks
\* would fire at once.
C15_CloseIdempotent ==
    pool.close_state_ # CLOSE_STATE_OPEN
    => \A sync \in SUBSET (DOMAIN pool.connector) :
          internal_close(pool, sync) = pool

\* a pool that is closing still has a connection to close and a connector
\* to cancel when close() is called again
C15_Witness ==
    /\ pool.close_state_ = CLOSE_STATE_WAITING_FOR_CONNECTIONS
    /\ has_connections(pool)
    /\ pool.pending_connections_ # <<>>
    /\ listener.last = <<>>

\* C17 as stated: once close() has been called, the pool eventually is
\* CLOSED and has called on_close, given that every closed connection
\* delivers its close notification and every cancelled connector fires its
\* callback.
C17_CloseCompletes ==
    (pool.close_state_ # CLOSE_STATE_OPEN)
    ~> (pool.close_state_ = CLOSE_STATE_CLOSED /\ listener.closes = 1)

\* What holds of closing under SpecClosing: the pool is eventually CLOSED and
\* has called on_close once, unless a close notification indexed
\* connections_by_shard_ out of range and the process stopped there.
CloseCompletesOrCrashes ==
    (pool.close_state_ # CLOSE_STATE_OPEN)
    ~> (\/ pool.crashed
        \/ pool.close_state_ = CLOSE_STATE_CLOSED /\ listener.closes = 1)

\* C18 as stated: a CLOSED pool has received the close notification of
\* every PooledConnection it ever wrapped, so close_connection never runs on
\* a CLOSED pool.
C18_ClosedAfterEveryNotification ==
    pool.close_state_ = CLOSE_STATE_CLOSED => DOMAIN pool.connection = {}

-----------------------------------------------------------------------------
(* Reconnect claims, checked under Spec *)

\* the attempts of st that pool did not have
NewAttempts(st) == DOMAIN st.connector \ DOMAIN pool.connector

\* st holds exactly one new attempt in place of connector c, with c's desired
\* shard and c's schedule object one delay further on
ReplacedBy(st, c) ==
    /\ c \notin DOMAIN st.connector
    /\ Cardinality(NewAttempts(st)) = 1
    /\ Len(st.pending_connections_) = Len(pool.pending_connections_)
    /\ \A d \in DOMAIN pool.connector \ {c} :
         /\ d \in DOMAIN st.connector
         /\ st.connector[d] = pool.connector[d]
         /\ st.reconnection_schedules_[d] = pool.reconnection_schedules_[d]
    /\ \A d \in NewAttempts(st) :
         /\ d \in Elems(st.pending_connections_)
         /\ ~st.connector[d].canceled
         /\ st.connector[d].desired_shard_num = pool.connector[c].desired_shard_num
         /\ st.reconnection_schedules_[d].id = pool.reconnection_schedules_[c].id
         /\ st.reconnection_schedules_[d].calls
              = pool.reconnection_schedules_[c].calls + 1

\* C19: a connector that completes ok on an OPEN pool for a shard whose slot
\* is full leaves the slots as they are: the new connection is wrapped,
\* closed and put in no slot, and one new attempt replaces the connector with
\* its desired_shard_num and its schedule, asked for its next delay. No
\* handler puts a connection that is outside the slots into one.
C19_FullSlotRejectsAndRetries ==
    /\ \A p \in DOMAIN pool.connection \ InSlots(pool) : pool.connection[p].closing
    /\ \A c \in DOMAIN pool.connector, shard \in 0..NumSlots(pool) :
         LET st == on_reconnect(pool, c, "ok", shard, {})
             p  == FreshId(DOMAIN pool.connection)
         IN  /\ InSlots(st) \subseteq InSlots(pool) \cup {p}
             /\ (/\ pool.close_state_ = CLOSE_STATE_OPEN
                 /\ shard < NumSlots(pool)
                 /\ ~slot_has_room(pool, shard))
                => /\ st.connections_by_shard_ = pool.connections_by_shard_
                   /\ DOMAIN st.connection = DOMAIN pool.connection \cup {p}
                   /\ st.connection[p].closing
                   /\ st.connection[p].shard_id = shard
                   /\ \A q \in DOMAIN pool.connection :
                        st.connection[q] = pool.connection[q]
                   /\ st.close_state_ = CLOSE_STATE_OPEN
                   /\ st.notify_state_ = pool.notify_state_
                   /\ ReplacedBy(st, c)
    /\ \A p \in DOMAIN pool.connection :
         InSlots(close_connection(pool, p)) \subseteq InSlots(pool)

\* a pool that rejected a connection for a full slot and retried: the closed
\* connection is outside the full slot of its shard, and an attempt for a
\* desired shard is on the second or a later delay of its schedule
C19_Witness ==
    /\ pool.close_state_ = CLOSE_STATE_OPEN
    /\ ~pool.oob_access
    /\ \E p \in DOMAIN pool.connection \ InSlots(pool) :
         /\ pool.connection[p].closing
         /\ pool.connection[p].shard_id < NumSlots(pool)
         /\ ~slot_has_room(pool, pool.connection[p].shard_id)
    /\ \E c \in DOMAIN pool.connector :
         /\ pool.connector[c].desired_shard_num # CassNullopt
         /\ pool.reconnection_schedules_[c].calls >= 2

\* C20: a connector that completes with a transient error on an OPEN pool
\* leaves slots, connections, notify_state_ and close_state_ as they are and
\* calls no listener; the pending attempts stay as many, the failed one
\* replaced by an attempt with the same desired_shard_num and the same
\* schedule, asked for its next delay.
C20_TransientRetriesInPlace ==
    pool.close_state_ = CLOSE_STATE_OPEN
    => \A c \in DOMAIN pool.connector :
         LET st == on_reconnect(pool, c, "transient", 0, {})
         IN  /\ st.connections_by_shard_ = pool.connections_by_shard_
             /\ st.connection = pool.connection
             /\ st.notify_state_ = pool.notify_state_
             /\ st.close_state_ = pool.close_state_
             /\ st.metrics = pool.metrics
             /\ st.emitted = <<>>
             /\ ReplacedBy(st, c)

\* an OPEN pool after transient errors only: nothing was rejected or lost
\* (no connection outside the slots, attempts and connections add up to the
\* capacity) and an attempt for a desired shard is on a later delay
C20_Witness ==
    /\ pool.close_state_ = CLOSE_STATE_OPEN
    /\ DOMAIN pool.connection = InSlots(pool)
    /\ \A p \in InSlots(pool) : ~pool.connection[p].closing
    /\ Len(pool.pending_connections_) + Cardinality(InSlots(pool))
         = pool.num_connections_per_shard_ * NumSlots(pool)
    /\ \E c \in DOMAIN pool.connector :
         /\ pool.connector[c].desired_shard_num # CassNullopt
         /\ pool.reconnection_schedules_[c].calls >= 2

-----------------------------------------------------------------------------
(* Constructor claims, checked under SpecConstruct *)

\* the constructor has returned
Built == args.done /\ ~pool.crashed

ShardsCountOf(si) == ValueOf(si).shards_count

\* the least q with q * n >= a
CeilDiv(a, n) == CHOOSE q \in 0..a : q * n >= a /\ \A r \in 0..(q - 1) : r * n < a

\* the attempts that the constructor still has to make for slot s
Needed(st, s) == st.num_connections_per_shard_ - Len(st.connections_by_shard_[s])

RECURSIVE SumNeeded(_, _)
SumNeeded(st, s) ==
    IF s >= NumSlots(st) THEN 0 ELSE Needed(st, s) + SumNeeded(st, s + 1)

\* C22: when the constructor returns, the pending attempts are as many as
\* the connections missing over all slots, each has a schedule of its own on
\* its first delay, and the attempts made for slot s carry desired_shard_num
\* s exactly when the host advertises a shard-aware port, plain or SSL.
C22_InitialAttempts ==
    Built
    => /\ Len(pool.pending_connections_) = SumNeeded(pool, 0)
       /\ Cardinality(Elems(pool.pending_connections_))
            = Len(pool.pending_connections_)
       /\ DOMAIN pool.reconnection_schedules_ = Elems(pool.pending_connections_)
       /\ DOMAIN pool.connector = Elems(pool.pending_connections_)
       /\ \A c, d \in DOMAIN pool.reconnection_schedules_ :
            /\ pool.reconnection_schedules_[c].calls = 1
            /\ c # d => pool.reconnection_schedules_[c].id
                          # pool.reconnection_schedules_[d].id
       /\ IF HasShardAwarePort(pool)
          THEN \A sl \in DOMAIN pool.connections_by_shard_ :
                  Cardinality({c \in DOMAIN pool.connector :
                                 pool.connector[c].desired_shard_num = Some(sl)})
                    = Needed(pool, sl)
          ELSE \A c \in DOMAIN pool.connector :
                  pool.connector[c].desired_shard_num = CassNullopt

C22_Witness ==
    /\ Built
    /\ HasShardAwarePort(pool)
    /\ NumSlots(pool) = 2
    /\ Needed(pool, 0) = 1
    /\ Needed(pool, 1) = 2
    /\ Len(pool.pending_connections_) = 3

\* C23 as stated: when the constructor returns, every supplied connection
\* that was not closing has been placed in the slot of its shard id or
\* closed; none is left open outside the slots.
C23_SuppliedPlacedOrClosed ==
    Built
    => /\ Len(pool.supplied) = Len(args.conns)
       /\ \A i \in 1..Len(args.conns) :
            /\ args.conns[i].closing <=> pool.supplied[i] = "closing"
            /\ pool.supplied[i] \in {"closing", "placed", "closed"}
       /\ \A sl \in DOMAIN pool.connections_by_shard_ :
            /\ \A i \in 1..Len(pool.connections_by_shard_[sl]) :
                 pool.connection[pool.connections_by_shard_[sl][i]].shard_id = sl
            /\ Len(pool.connections_by_shard_[sl])
                 = Cardinality({i \in 1..Len(args.conns) :
                                  /\ pool.supplied[i] = "placed"
                                  /\ args.conns[i].shard_id = sl})
       /\ DOMAIN pool.connection = InSlots(pool)

\* C24: num_connections_per_shard_ is the ceiling of num_connections_per_host
\* over shards_count on a host with a descriptor of one shard or more, and
\* num_connections_per_host on a host without descriptor.
C24_PerShardIsCeiling ==
    Built
    => /\ args.si = CassNullopt
            => pool.num_connections_per_shard_ = args.per_host
       /\ (args.si # CassNullopt /\ ShardsCountOf(args.si) >= 1)
            => pool.num_connections_per_shard_
                 = CeilDiv(args.per_host, ShardsCountOf(args.si))

C24_Witness ==
    /\ Built
    /\ args.si # CassNullopt
    /\ ShardsCountOf(args.si) = 2
    /\ args.per_host = 3
    /\ pool.num_connections_per_shard_ = 2

\* C25 as stated: when the constructor returns, connections_by_shard_ has
\* max(1, shards_count) slots, whatever shard count the descriptor carries.
C25_SlotsAreMaxOneShards ==
    Built
    => NumSlots(pool) = IF args.si = CassNullopt \/ ShardsCountOf(args.si) < 1
                        THEN 1
                        ELSE ShardsCountOf(args.si)

-----------------------------------------------------------------------------
(* Close-notification, keyspace, port, convergence, schedule and flush        *)
(* claims; each names the specification it is checked under                 *)

\* C21 (checked under SpecFlush): the close notification of a connection p
\* in slot s of an OPEN pool
\* takes p out of slot s and out of to_flush_ and leaves the other slots as
\* they are; on_pool_down is called, and notify_state_ becomes DOWN, exactly
\* when the pool was UP and p was its last connection, and no other listener
\* call is made; one attempt is added, on the first delay of a schedule that
\* no other attempt has, with desired_shard_num s exactly when the host
\* advertises a shard-aware port.
C21_CloseNotificationReconnects ==
    pool.close_state_ = CLOSE_STATE_OPEN
    => \A p \in InSlots(pool) :
         LET st == close_connection(pool, p)
             sl == pool.connection[p].shard_id
             last == pool.notify_state_ = NOTIFY_STATE_UP /\ InSlots(pool) = {p}
         IN  /\ st.connections_by_shard_
                  = [pool.connections_by_shard_ EXCEPT ![sl] = EraseRemove(@, p)]
             /\ p \in Elems(pool.connections_by_shard_[sl])
             /\ p \notin InSlots(st)
             /\ st.to_flush_ = pool.to_flush_ \ {p}
             /\ st.emitted = IF last THEN <<on_pool_down>> ELSE <<>>
             /\ st.notify_state_ = IF last THEN NOTIFY_STATE_DOWN
                                   ELSE pool.notify_state_
             /\ st.close_state_ = CLOSE_STATE_OPEN
             /\ Cardinality(NewAttempts(st)) = 1
             /\ Len(st.pending_connections_) = Len(pool.pending_connections_) + 1
             /\ \A d \in DOMAIN pool.connector :
                  /\ d \in DOMAIN st.connector
                  /\ st.connector[d] = pool.connector[d]
                  /\ st.reconnection_schedules_[d] = pool.reconnection_schedules_[d]
             /\ \A d \in NewAttempts(st) :
                  /\ d \in Elems(st.pending_connections_)
                  /\ st.reconnection_schedules_[d].calls = 1
                  /\ \A e \in DOMAIN pool.reconnection_schedules_ :
                       st.reconnection_schedules_[d].id
                         # pool.reconnection_schedules_[e].id
                  /\ st.connector[d].desired_shard_num
                       = IF HasShardAwarePort(pool) THEN Some(sl) ELSE CassNullopt

\* the last connection of an UP pool, registered for flushing, has closed:
\* the pool is DOWN with nothing to flush although a connection registered
\* since the last flush(), and an attempt for a desired shard is on its
\* first delay
C21_Witness ==
    /\ pool.close_state_ = CLOSE_STATE_OPEN
    /\ pool.notify_state_ = NOTIFY_STATE_DOWN
    /\ DOMAIN pool.connection = {}
    /\ listener.registered
    /\ pool.to_flush_ = {}
    /\ \E c \in DOMAIN pool.connector :
         /\ pool.connector[c].desired_shard_num # CassNullopt
         /\ pool.reconnection_schedules_[c].calls = 1

\* C29 (checked under SpecKeyspace): once set_keyspace(ks) has been called,
\* a connector that completes ok yields a connection that was connected with
\* the keyspace of the last call, whenever the connector was scheduled.
C29_ConnectsWithCurrentKeyspace ==
    pool.keyspace_ \in Keyspaces
    => \A c \in DOMAIN pool.connector : \A shard \in ReportedShards :
         LET st == on_reconnect(pool, c, "ok", shard, {})
         IN  \A p \in DOMAIN st.connection \ DOMAIN pool.connection :
                st.connection[p].keyspace = pool.keyspace_

OnePerSlot(st) ==
    \A sl \in DOMAIN st.connections_by_shard_ :
       Len(st.connections_by_shard_[sl]) = 1

FullWithPendingIsStable ==
    (OnePerSlot(pool) /\ pool.pending_connections_ # <<>>)
    => /\ \A c \in DOMAIN pool.connector :
          \A shard \in 0..(NumSlots(pool) - 1) :
             LET st == on_reconnect(pool, c, "ok", shard, {})
             IN  /\ st.connections_by_shard_ = pool.connections_by_shard_
                 /\ st.pending_connections_ # <<>>
       /\ \A p \in DOMAIN pool.connection \ InSlots(pool) :
             LET st == close_connection(pool, p)
             IN  /\ st.connections_by_shard_ = pool.connections_by_shard_
                 /\ st.pending_connections_ # <<>>

\* the only states without a next step are those whose slots are full: the
\* caps stop no pool that still has a slot to fill
ConvergeStopsOnlyWhenFull ==
    ~ENABLED NextConverge => OnePerSlot(pool)

\* the schedule of attempt c is gone from st and st has no attempt that c's
\* completion added
EndsWithoutReplacement(st, c) ==
    /\ c \notin DOMAIN st.reconnection_schedules_
    /\ c \notin Elems(st.pending_connections_)
    /\ NewAttempts(st) = {}
    /\ \A d \in DOMAIN st.reconnection_schedules_ :
         /\ d \in DOMAIN pool.reconnection_schedules_
         /\ st.reconnection_schedules_[d].id # pool.reconnection_schedules_[c].id

\* C26 (checked under Spec): the keys of reconnection_schedules_ are the
\* members of pending_connections_, each of them listed once, and no two
\* attempts have the same schedule; a connector that completes ok for a slot
\* with room, cancelled, with a critical error, or on a pool that is not
\* OPEN, leaves a table without its schedule and without a new attempt, so
\* that no later attempt can take that schedule from the table.
C26_SchedulesOwnedByAttempts ==
    /\ DOMAIN pool.reconnection_schedules_ = Elems(pool.pending_connections_)
    /\ DOMAIN pool.connector = Elems(pool.pending_connections_)
    /\ Len(pool.pending_connections_) = Cardinality(Elems(pool.pending_connections_))
    /\ \A c, d \in DOMAIN pool.reconnection_schedules_ :
         c # d => pool.reconnection_schedules_[c].id
                    # pool.reconnection_schedules_[d].id
    /\ \A c \in DOMAIN pool.connector :
         /\ \A shard \in ReportedShards :
              pool.close_state_ # CLOSE_STATE_OPEN \/ slot_has_room(pool, shard)
              => EndsWithoutReplacement(on_reconnect(pool, c, "ok", shard, {}), c)
         /\ EndsWithoutReplacement(on_reconnect(pool, c, "canceled", 0, {}), c)
         /\ \A sync \in SUBSET (DOMAIN pool.connector \ {c}) :
              EndsWithoutReplacement(on_reconnect(pool, c, "critical", 0, sync), c)
         /\ pool.close_state_ # CLOSE_STATE_OPEN
            => EndsWithoutReplacement(on_reconnect(pool, c, "transient", 0, {}), c)

\* an OPEN pool with a connection in a slot and two pending attempts, one on
\* its first delay with a new schedule and one on a later delay of a
\* schedule handed on by a connector that failed or was turned away
C26_Witness ==
    /\ pool.close_state_ = CLOSE_STATE_OPEN
    /\ InSlots(pool) # {}
    /\ \E c, d \in DOMAIN pool.reconnection_schedules_ :
         /\ pool.reconnection_schedules_[c].calls = 1
         /\ pool.reconnection_schedules_[d].calls > 1
         /\ pool.reconnection_schedules_[c].id # pool.reconnection_schedules_[d].id

\* C27 as stated (checked under SpecFlush): since the last flush() (or since construction) the
\* listener has received on_requires_flush once if a connection registered
\* since then and not at all otherwise; and what flush() leaves behind is an
\* empty to_flush_ with every connection that was registered written out.
C27_OneRequestPerInterval ==
    /\ listener.requires_flush = IF listener.registered THEN 1 ELSE 0
    /\ LET st == flush(pool)
       IN  /\ st.to_flush_ = {}
           /\ \A p \in pool.to_flush_ : ~st.connection[p].buffered

-----------------------------------------------------------------------------
(* Tie-breaking, close-state and index claims; each names the specification  *)
(* it is checked under                                                       *)

\* the connections find_least_busy chooses from, in the order it visits
\* them: the token's slot if it holds a connection that is not closing,
\* else every slot from the first to the last
Candidates(tok) ==
    IF /\ tok # INT64_MIN
       /\ Sharded
       /\ NonClosing(Elems(SlotOf(tok))) # {}
    THEN SlotOf(tok)
    ELSE FlattenSlots(pool, 0)

\* C31 (checked under SpecDispatch): find_least_busy returns the first, in
\* the order of visit, of the candidates that are not closing and carry the
\* fewest requests: every such candidate before it carries more requests.
\* The same call on the unchanged pool returns the same connection.
C31_FirstOfTheLeastBusy ==
    lb.done
    => LET v == Candidates(lb.token)
       IN  /\ lb.result = find_least_busy(pool, lb.token)
           /\ NonClosing(Elems(v)) = {} => lb.result = CassNullopt
           /\ NonClosing(Elems(v)) # {}
              => \E i \in 1..Len(v) :
                    /\ lb.result = Some(v[i])
                    /\ ~pool.connection[v[i]].closing
                    /\ \A j \in 1..Len(v) :
                         ~pool.connection[v[j]].closing
                         => /\ pool.connection[v[i]].inflight
                                 <= pool.connection[v[j]].inflight
                            /\ j < i => pool.connection[v[i]].inflight
                                          < pool.connection[v[j]].inflight

\* the placeholder token on a pool of two slots: the result is of the first
\* slot and a connection of the second slot, not closing, carries as many
\* requests
C31_Witness ==
    /\ lb.done
    /\ lb.token = INT64_MIN
    /\ NumSlots(pool) = 2
    /\ lb.result # CassNullopt
    /\ ValueOf(lb.result) \in Elems(pool.connections_by_shard_[0])
    /\ \E q \in NonClosing(Elems(pool.connections_by_shard_[1])) :
          pool.connection[q].inflight
             = pool.connection[ValueOf(lb.result)].inflight

\* the place of a close state in the order of closing
CloseStateRank(v) ==
    IF v = CLOSE_STATE_OPEN THEN 0
    ELSE IF v = CLOSE_STATE_CLOSING THEN 1
    ELSE IF v = CLOSE_STATE_WAITING_FOR_CONNECTIONS THEN 2
    ELSE 3

\* the values close_state_ has while a handler takes pool to st never step
\* back, CLOSED comes straight after WAITING_FOR_CONNECTIONS, and the last
\* of them is the value st has
MovesForward(st) ==
    LET trace == <<pool.close_state_>> \o st.close_states
    IN  /\ st.close_state_ = trace[Len(trace)]
        /\ \A i \in 1..(Len(trace) - 1) :
             /\ CloseStateRank(trace[i]) <= CloseStateRank(trace[i + 1])
             /\ trace[i + 1] = CLOSE_STATE_CLOSED
                  => trace[i] \in {CLOSE_STATE_WAITING_FOR_CONNECTIONS,
                                   CLOSE_STATE_CLOSED}

\* C32 (checked under Spec): whatever handler runs next (close(), a
\* connector completing in any way for any shard, the close notification of
\* any connection, with any cancel callbacks firing at once), close_state_
\* only takes values that are not before the one it has, in the order OPEN,
\* CLOSING, WAITING_FOR_CONNECTIONS, CLOSED, and becomes CLOSED only when it
\* was WAITING_FOR_CONNECTIONS.
C32_CloseStateMovesForward ==
    /\ pool.close_states = <<>>
    /\ \A sync \in SUBSET (DOMAIN pool.connector) :
          MovesForward(internal_close(pool, sync))
    /\ \A c \in DOMAIN pool.connector :
       \A outcome \in {"ok", "transient", "critical", "canceled"} :
       \A shard \in ReportedShards :
       \A sync \in SUBSET (DOMAIN pool.connector \ {c}) :
          MovesForward(on_reconnect(pool, c, outcome, shard, sync))
    /\ \A p \in DOMAIN pool.connection :
          MovesForward(close_connection(pool, p))

\* close() has taken the pool to WAITING_FOR_CONNECTIONS and its last
\* cancelled connector is about to fire its callback, which takes it to
\* CLOSED
C32_Witness ==
    /\ pool.close_state_ = CLOSE_STATE_WAITING_FOR_CONNECTIONS
    /\ \E c \in DOMAIN pool.connector :
         /\ pool.connector[c].canceled
         /\ on_reconnect(pool, c, "canceled", 0, {}).close_states
              = <<CLOSE_STATE_CLOSED>>

\* the connector c has put a connection on shard, a slot with room: st has
\* one more connection, at the end of that slot and open, c and its schedule
\* are gone and nothing has taken their place, and the pool is UP, having
\* called on_pool_up if it was not
PlacedInSlot(st, c, shard) ==
    LET new == DOMAIN st.connection \ DOMAIN pool.connection
    IN  /\ Cardinality(new) = 1
        /\ \A p \in new :
             /\ st.connections_by_shard_
                  = [pool.connections_by_shard_ EXCEPT ![shard] = Append(@, p)]
             /\ st.connection[p].shard_id = shard
             /\ ~st.connection[p].closing
        /\ st.pending_connections_ = EraseRemove(pool.pending_connections_, c)
        /\ DOMAIN st.reconnection_schedules_
             = DOMAIN pool.reconnection_schedules_ \ {c}
        /\ DOMAIN st.connector = DOMAIN pool.connector \ {c}
        /\ st.close_state_ = CLOSE_STATE_OPEN
        /\ st.notify_state_ = NOTIFY_STATE_UP
        /\ st.emitted = IF pool.notify_state_ = NOTIFY_STATE_UP THEN <<>>
                        ELSE <<on_pool_up>>

\* an un-sharded pool for 2 connections that holds none and has its two
\* first attempts pending
ColdStartOfTwo ==
    /\ pool.host_sharding_info = CassNullopt
    /\ pool.num_connections_per_shard_ = 2
    /\ DOMAIN pool.connection = {}
    /\ Len(pool.pending_connections_) = 2
    /\ pool.close_state_ = CLOSE_STATE_OPEN

\* C33 (checked under SpecListener): a connector that completes ok on an
\* OPEN pool for a shard whose slot has room puts its connection at the end
\* of that slot, goes away with its schedule and leaves no attempt in its
\* place, and the pool is UP afterwards, on_pool_up being called exactly
\* when it was not UP before. So the un-sharded pool for 2 connections
\* built from none is, after its two attempts completed ok, UP with 2
\* connections in slot 0 and no attempt pending.
C33_OkWithRoomIsPlaced ==
    /\ pool.close_state_ = CLOSE_STATE_OPEN
       => \A c \in DOMAIN pool.connector : \A shard \in ReportedShards :
             slot_has_room(pool, shard)
             => PlacedInSlot(on_reconnect(pool, c, "ok", shard, {}), c, shard)
    /\ ColdStartOfTwo
       => \A c \in DOMAIN pool.connector :
          LET s1 == on_reconnect(pool, c, "ok", 0, {})
          IN  \A d \in DOMAIN s1.connector :
              LET s2 == on_reconnect(s1, d, "ok", 0, {})
              IN  /\ s2.notify_state_ = NOTIFY_STATE_UP
                  /\ Len(s2.connections_by_shard_[0]) = 2
                  /\ NumSlots(s2) = 1
                  /\ s2.pending_connections_ = <<>>
                  /\ s2.close_state_ = CLOSE_STATE_OPEN

\* the un-sharded pool for 2 connections built from none after its two
\* connects: it went DOWN when built and UP with the first connection, the
\* second connection called nothing
C33_Witness ==
    /\ pool.host_sharding_info = CassNullopt
    /\ pool.num_connections_per_shard_ = 2
    /\ pool.close_state_ = CLOSE_STATE_OPEN
    /\ pool.notify_state_ = NOTIFY_STATE_UP
    /\ Len(pool.connections_by_shard_[0]) = 2
    /\ \A p \in InSlots(pool) : ~pool.connection[p].closing
    /\ pool.pending_connections_ = <<>>
    /\ listener.downs = 1
    /\ listener.ups = 1
    /\ listener.last = <<>>

\* the handler that took pool to st put no connection in a slot and made no
\* reconnect attempt
NothingAdded(st) ==
    /\ DOMAIN st.connections_by_shard_ = DOMAIN pool.connections_by_shard_
    /\ \A sl \in DOMAIN st.connections_by_shard_ :
          Elems(st.connections_by_shard_[sl])
             \subseteq Elems(pool.connections_by_shard_[sl])
    /\ DOMAIN st.connector \subseteq DOMAIN pool.connector
    /\ Elems(st.pending_connections_) \subseteq Elems(pool.pending_connections_)
    /\ DOMAIN st.reconnection_schedules_
          \subseteq DOMAIN pool.reconnection_schedules_

\* C34 (checked under Spec): the call that takes close_state_ out of OPEN
\* (close(), or a connector's critical error) and, on a pool that is not
\* OPEN, every connector completion (ok for any shard, transient, critical,
\* cancelled), every close notification and every further close() put no
\* connection in a slot and make no reconnect attempt.
C34_NothingAddedOnceNotOpen ==
    /\ \A sync \in SUBSET (DOMAIN pool.connector) :
          NothingAdded(internal_close(pool, sync))
    /\ \A c \in DOMAIN pool.connector :
       \A sync \in SUBSET (DOMAIN pool.connector \ {c}) :
          NothingAdded(on_reconnect(pool, c, "critical", 0, sync))
    /\ pool.close_state_ # CLOSE_STATE_OPEN
       => /\ \A c \in DOMAIN pool.connector :
             \A outcome \in {"ok", "transient", "critical", "canceled"} :
             \A shard \in ReportedShards :
                NothingAdded(on_reconnect(pool, c, outcome, shard, {}))
          /\ \A p \in DOMAIN pool.connection :
                NothingAdded(close_connection(pool, p))

\* a pool that waits for its connections, with a slot that has room, a
\* connector still pending and a closed connection still to notify
C34_Witness ==
    /\ pool.close_state_ = CLOSE_STATE_WAITING_FOR_CONNECTIONS
    /\ pool.pending_connections_ # <<>>
    /\ \E sl \in DOMAIN pool.connections_by_shard_ : slot_has_room(pool, sl)
    /\ \E p \in InSlots(pool) : pool.connection[p].closing

\* C35 as stated (checked under Spec): no handler has used an index on
\* connections_by_shard_ that is not smaller than its length, the close
\* notification of a connection turned away for its shard id included, and
\* find_least_busy would use none for any token.
C35_IndexesInRange ==
    /\ ~pool.oob_access
    /\ \A p \in DOMAIN pool.connection :
          ~close_connection(pool, p).oob_access
    /\ Sharded
       => \A tok \in DispatchTokens \ {INT64_MIN} :
             shard_id(tok, ValueOf(pool.host_sharding_info).shards_count,
                      ValueOf(pool.host_sharding_info).sharding_ignore_MSB)
               \in DOMAIN pool.connections_by_shard_

\* C36 (checked under Spec): on_reconnect has never run for a connector
\* without an entry in reconnection_schedules_; every connector that has yet
\* to fire its callback, cancelled or not, has an entry, whatever the close
\* state; and close(), with any of the pending connectors firing inside
\* cancel(), and any completion of any connector, run on_reconnect only for
\* connectors that have one.
C36_ScheduleFoundOnReconnect ==
    /\ ~pool.no_schedule
    /\ \A c \in DOMAIN pool.connector :
          c \in DOMAIN pool.reconnection_schedules_
    /\ \A sync \in SUBSET (DOMAIN pool.connector) :
          ~internal_close(pool, sync).no_schedule
    /\ \A c \in DOMAIN pool.connector :
          /\ \A outcome \in {"ok", "transient", "canceled"} :
             \A shard \in ReportedShards :
                ~on_reconnect(pool, c, outcome, shard, {}).no_schedule
          /\ \A sync \in SUBSET (DOMAIN pool.connector \ {c}) :
                ~on_reconnect(pool, c, "critical", 0, sync).no_schedule

\* close() has run: a cancelled connector is still pending, has yet to fire
\* its callback and has its entry in the table
C36_Witness ==
    /\ pool.close_state_ = CLOSE_STATE_WAITING_FOR_CONNECTIONS
    /\ ~pool.no_schedule
    /\ \E c \in DOMAIN pool.connector :
          /\ pool.connector[c].canceled
          /\ c \in Elems(pool.pending_connections_)
          /\ c \in DOMAIN pool.reconnection_schedules_

=============================================================================
